---------------------------- MODULE Spec2Model ----------------------------
(*************************************************************************)
(* Oracle -> Snowflake migration helpers of streamlist-for-snowflake.    *)
(*                                                                       *)
(* Part 1 models core_logic_v4.convert_oracle_to_snowflake: a pipeline   *)
(* of re.sub calls over a text.  A text is a sequence of one-character   *)
(* strings; every regular expression of the source is modelled by a      *)
(* matcher that returns where a match starting at position i ends and    *)
(* what replaces it, and re.sub by a left-to-right scan over             *)
(* non-overlapping matches.                                              *)
(*                                                                       *)
(* Part 2 models the "Convert and Save Models" handler of                *)
(* streamlit_app_v4.migration_settings_tab: the batch loop over the      *)
(* uploaded files.                                                       *)
(*************************************************************************)
EXTENDS Integers, Sequences, FiniteSets, TLC

VARIABLES
    src_text,         \* convert: the text convert_oracle_to_snowflake was called with
    sql_text,         \* convert: the local sql_text, rewritten by each re.sub
    prev_text,        \* convert: sql_text as the last re.sub statement found it
    pc,               \* convert: the statement about to run
    pass,             \* convert: 1 = first call, 2 = call on the first call's output
    first_out,        \* convert: what the first call returned (<<>> until then)
    uploaded_files,   \* batch: the uploader's files, in order
    source_type,      \* batch: the "Select Source File Type" choice
    bpc,              \* batch: position of the click handler
    idx,              \* batch: index of the loop over uploaded_files_data
    files_data,       \* batch: st.session_state['uploaded_files_data'] (names, in order)
    converted_files,  \* batch: keys of st.session_state['converted_files']
    migration_summary,\* batch: st.session_state['migration_summary'], name -> status
    written,          \* batch: output paths written, path -> name of the file written
    calls,            \* batch: per file name, the core functions invoked for it
    reported,         \* batch: names of the files an st.error was shown for
    called,           \* call: the function that was called ("none" before the call)
    call_args,        \* call: the arguments it is called with
    returned,         \* call: what it returned
    summary_txt,      \* streamlit_app_v1: the records of summary.txt, in order
    page_index,       \* app1_updated_v3: st.session_state.page_index
    sidebar_radio,    \* app1_updated_v3: the option the sidebar radio holds
    rerun_requested,  \* app1_updated_v3: st.rerun() was called, the rerun is due
    radio_identity,   \* app1_updated_v3: what Streamlit identifies the radio by
    nav_event         \* app1_updated_v3: what triggered the last script run

convVars  == <<src_text, sql_text, prev_text, pc, pass, first_out>>
batchVars == <<uploaded_files, source_type, bpc, idx, files_data, converted_files,
               migration_summary, written, calls, reported>>
fnVars    == <<called, call_args, returned>>
navVars   == <<page_index, sidebar_radio, rerun_requested, radio_identity, nav_event>>
appVars   == <<summary_txt, navVars>>
vars == <<src_text, sql_text, prev_text, pc, pass, first_out, uploaded_files, source_type, bpc,
          idx, files_data, converted_files, migration_summary, written, calls,
          reported, called, call_args, returned, summary_txt, page_index, sidebar_radio,
          rerun_requested, radio_identity, nav_event>>

--------------------------------------------------------------------------
(* Characters and character classes of Python's re module (ASCII part).  *)

LowerLetters ==
    <<"a","b","c","d","e","f","g","h","i","j","k","l","m",
      "n","o","p","q","r","s","t","u","v","w","x","y","z">>

UpperLetters ==
    <<"A","B","C","D","E","F","G","H","I","J","K","L","M",
      "N","O","P","Q","R","S","T","U","V","W","X","Y","Z">>

Digits == {"0","1","2","3","4","5","6","7","8","9"}

LowerSet == {LowerLetters[k] : k \in 1..Len(LowerLetters)}

UpperSet == {UpperLetters[k] : k \in 1..Len(UpperLetters)}

\* re.IGNORECASE: two characters match when they agree after case folding.
Upper(c) ==
    IF c \in LowerSet
    THEN UpperLetters[CHOOSE k \in 1..Len(LowerLetters) : LowerLetters[k] = c]
    ELSE c

\* str.lower() of one character.
Lower(c) ==
    IF c \in UpperSet
    THEN LowerLetters[CHOOSE k \in 1..Len(UpperLetters) : UpperLetters[k] = c]
    ELSE c

\* str.lower()
LowerText(t) == [k \in 1..Len(t) |-> Lower(t[k])]

\* \s
IsSpace(c) == c \in {" ", "\t", "\n"}

\* \d
IsDigit(c) == c \in Digits

\* \w
IsWordChar(c) == c \in LowerSet \/ c \in UpperSet \/ c \in Digits \/ c = "_"

\* \b at the gap before position i (i in 1..Len(t)+1).
BoundaryAt(t, i) ==
    LET left  == i > 1 /\ IsWordChar(t[i-1])
        right == i <= Len(t) /\ IsWordChar(t[i])
    IN  left # right

\* The literal kw, case-insensitively, at position i.
KwAt(t, i, kw) ==
    /\ i + Len(kw) - 1 <= Len(t)
    /\ \A k \in 1..Len(kw) : Upper(t[i+k-1]) = kw[k]

\* The literal lit, case-sensitively, at position i.
LitAt(t, i, lit) ==
    /\ i + Len(lit) - 1 <= Len(t)
    /\ \A k \in 1..Len(lit) : t[i+k-1] = lit[k]

\* \s* (greedy) from position i: the first position that holds no space.
SkipSpace(t, i) ==
    CHOOSE j \in i..(Len(t)+1) :
        /\ \A k \in i..(j-1) : IsSpace(t[k])
        /\ j = Len(t)+1 \/ ~IsSpace(t[j])

\* The first position >= i that holds c, 0 when there is none.
IndexFrom(t, i, c) ==
    IF \E j \in i..Len(t) : t[j] = c
    THEN CHOOSE j \in i..Len(t) : t[j] = c /\ \A k \in i..(j-1) : t[k] # c
    ELSE 0

\* \d+ (greedy) from position i: the last digit of the run, 0 when t[i] is no digit.
DigitsEnd(t, i) ==
    IF i <= Len(t) /\ IsDigit(t[i])
    THEN CHOOSE j \in i..Len(t) :
            /\ \A k \in i..j : IsDigit(t[k])
            /\ j = Len(t) \/ ~IsDigit(t[j+1])
    ELSE 0

\* The concatenation of a sequence of texts.
RECURSIVE Cat(_)
Cat(parts) == IF parts = <<>> THEN <<>> ELSE Head(parts) \o Cat(Tail(parts))

\* sep.join(parts)
RECURSIVE Join(_, _)
Join(parts, sep) ==
    IF parts = <<>> THEN <<>>
    ELSE IF Len(parts) = 1 THEN parts[1]
    ELSE parts[1] \o sep \o Join(Tail(parts), sep)

\* Whether text sub occurs in t (case-sensitively).
Contains(t, sub) == \E i \in 1..Len(t) : LitAt(t, i, sub)

\* Whether text kw (upper case) occurs in t, case-insensitively.
ContainsCI(t, kw) == \E i \in 1..Len(t) : KwAt(t, i, kw)

--------------------------------------------------------------------------
(* The literals of the patterns and of the replacement templates.        *)

SYSDATE    == <<"S","Y","S","D","A","T","E">>
NVL        == <<"N","V","L">>
TO_DATE    == <<"T","O","_","D","A","T","E">>
TO_CHAR    == <<"T","O","_","C","H","A","R">>
TO_NUMBER  == <<"T","O","_","N","U","M","B","E","R">>
ROWNUM     == <<"R","O","W","N","U","M">>
DECODE     == <<"D","E","C","O","D","E">>
SUBSTR     == <<"S","U","B","S","T","R">>
MARKER     == <<"(","+",")">>
LE         == <<"<","=">>

CURRENT_TIMESTAMP ==
    <<"C","U","R","R","E","N","T","_","T","I","M","E","S","T","A","M","P">>
COALESCE      == <<"C","O","A","L","E","S","C","E">>
TO_VARCHAR    == <<"T","O","_","V","A","R","C","H","A","R">>
TRY_TO_NUMBER == <<"T","R","Y","_">> \o TO_NUMBER
SUBSTRING     == SUBSTR \o <<"I","N","G">>
LIMIT         == <<"L","I","M","I","T">>
CASE_         == <<"C","A","S","E">>
WHEN_         == <<"W","H","E","N">>
THEN_         == <<"T","H","E","N">>
ELSE_         == <<"E","L","S","E">>
END_          == <<"E","N","D">>
SP            == <<" ">>
COMMA         == <<",">>
COMMA_SP      == <<",", " ">>
LPAR          == <<"(">>
RPAR          == <<")">>


--------------------------------------------------------------------------
(* Matchers.  A matcher answers, for a text t and a start position i,    *)
(* [end |-> last position of the match (0: no match at i),               *)
(*  rep |-> the text re.sub puts in its place].                          *)

NoMatch == [end |-> 0, rep |-> <<>>]

\* \bKW\s*\(  at i: the position of the "(", 0 when it does not match.
CallOpen(t, i, kw) ==
    IF BoundaryAt(t, i) /\ KwAt(t, i, kw)
    THEN LET p == SkipSpace(t, i + Len(kw))
         IN  IF p <= Len(t) /\ t[p] = "(" THEN p ELSE 0
    ELSE 0

\* ([^,]+),  from position s: the position of the comma, 0 when it does not match.
\* The group may hold anything but a comma, so it ends at the first comma.
UptoComma(t, s) ==
    LET c == IndexFrom(t, s, ",")
    IN  IF c > s THEN c ELSE 0

\* \s*([^X]+)X  from position s, X = stop: [start |-> first position of the
\* group, stop |-> position of X], start = 0 when it does not match.  \s* is
\* greedy and gives one space back when the group would otherwise be empty.
SpaceThenGroup(t, s, stop) ==
    LET r == IndexFrom(t, s, stop)
        q == SkipSpace(t, s)
    IN  IF r = 0 THEN [start |-> 0, stop |-> 0]
        ELSE IF q < r THEN [start |-> q, stop |-> r]
        ELSE IF q > s THEN [start |-> r - 1, stop |-> r]
        ELSE [start |-> 0, stop |-> 0]

\* Mutant of MatchSysdate: flags=re.IGNORECASE left out.
MatchSysdateCaseSensitive(t, i) ==
    IF BoundaryAt(t, i) /\ LitAt(t, i, SYSDATE) /\ BoundaryAt(t, i + Len(SYSDATE))
    THEN [end |-> i + Len(SYSDATE) - 1, rep |-> CURRENT_TIMESTAMP]
    ELSE NoMatch

\* r'\bSYSDATE\b' -> 'CURRENT_TIMESTAMP'
MatchSysdate(t, i) ==
    IF BoundaryAt(t, i) /\ KwAt(t, i, SYSDATE) /\ BoundaryAt(t, i + Len(SYSDATE))
    THEN [end |-> i + Len(SYSDATE) - 1, rep |-> CURRENT_TIMESTAMP]
    ELSE NoMatch

\* r'\bKW\s*\(([^,]+),\s*([^)]+)\)' -> r'OUT(\1, \2)'
MatchCall2(t, i, kw, out) ==
    LET p == CallOpen(t, i, kw)
        c == IF p = 0 THEN 0 ELSE UptoComma(t, p + 1)
        g == IF c = 0 THEN [start |-> 0, stop |-> 0] ELSE SpaceThenGroup(t, c + 1, ")")
    IN  IF g.start = 0 THEN NoMatch
        ELSE [end |-> g.stop,
              rep |-> out \o LPAR \o SubSeq(t, p + 1, c - 1) \o COMMA_SP
                          \o SubSeq(t, g.start, g.stop - 1) \o RPAR]

\* Mutant of MatchNvl: the groups swapped, r'COALESCE(\2, \1)'.
MatchNvlSwapped(t, i) ==
    LET p == CallOpen(t, i, NVL)
        c == IF p = 0 THEN 0 ELSE UptoComma(t, p + 1)
        g == IF c = 0 THEN [start |-> 0, stop |-> 0] ELSE SpaceThenGroup(t, c + 1, ")")
    IN  IF g.start = 0 THEN NoMatch
        ELSE [end |-> g.stop,
              rep |-> COALESCE \o LPAR \o SubSeq(t, g.start, g.stop - 1) \o COMMA_SP
                          \o SubSeq(t, p + 1, c - 1) \o RPAR]

\* r'\bNVL\s*\(([^,]+),\s*([^)]+)\)' -> r'COALESCE(\1, \2)'
MatchNvl(t, i) == MatchCall2(t, i, NVL, COALESCE)

\* r'\bTO_DATE\s*\(([^,]+),\s*([^)]+)\)' -> r"TO_DATE(\1, \2)"
MatchToDate(t, i) == MatchCall2(t, i, TO_DATE, TO_DATE)

\* Mutant of MatchToChar: the replacement keeps the name, r"TO_CHAR(\1, \2)".
MatchToCharKeepsName(t, i) == MatchCall2(t, i, TO_CHAR, TO_CHAR)

\* r'\bTO_CHAR\s*\(([^,]+),\s*([^)]+)\)' -> r"TO_VARCHAR(\1, \2)"
MatchToChar(t, i) == MatchCall2(t, i, TO_CHAR, TO_VARCHAR)

\* r'\bTO_NUMBER\s*\(([^)]+)\)' -> r'TRY_TO_NUMBER(\1)'
MatchToNumber(t, i) ==
    LET p == CallOpen(t, i, TO_NUMBER)
        r == IF p = 0 THEN 0 ELSE IndexFrom(t, p + 1, ")")
    IN  IF r > p + 1
        THEN [end |-> r,
              rep |-> TRY_TO_NUMBER \o LPAR \o SubSeq(t, p + 1, r - 1) \o RPAR]
        ELSE NoMatch

\* Mutant of MatchOuterJoin: the pattern r'\(\+' - the closing parenthesis stays.
MatchOuterJoinOpenOnly(t, i) ==
    IF LitAt(t, i, <<"(", "+">>) THEN [end |-> i + 1, rep |-> <<>>] ELSE NoMatch

\* r'\(\+\)' -> ''
MatchOuterJoin(t, i) ==
    IF LitAt(t, i, MARKER) THEN [end |-> i + 2, rep |-> <<>>] ELSE NoMatch

\* Mutant of MatchRownum: r'\bROWNUM\s+<=\s+(\d+)' - blanks around <= required.
MatchRownumNeedsBlanks(t, i) ==
    IF BoundaryAt(t, i) /\ KwAt(t, i, ROWNUM)
    THEN LET p == SkipSpace(t, i + Len(ROWNUM))
             q == IF p > i + Len(ROWNUM) /\ LitAt(t, p, LE) THEN SkipSpace(t, p + 2) ELSE 0
             e == IF q <= p + 2 THEN 0 ELSE DigitsEnd(t, q)
         IN  IF e = 0 THEN NoMatch
             ELSE [end |-> e, rep |-> LIMIT \o SP \o SubSeq(t, q, e)]
    ELSE NoMatch

\* r'\bROWNUM\s*<=\s*(\d+)' -> r'LIMIT \1'
MatchRownum(t, i) ==
    IF BoundaryAt(t, i) /\ KwAt(t, i, ROWNUM)
    THEN LET p == SkipSpace(t, i + Len(ROWNUM))
             q == IF LitAt(t, p, LE) THEN SkipSpace(t, p + 2) ELSE 0
             e == IF q = 0 THEN 0 ELSE DigitsEnd(t, q)
         IN  IF e = 0 THEN NoMatch
             ELSE [end |-> e, rep |-> LIMIT \o SP \o SubSeq(t, q, e)]
    ELSE NoMatch

\* r'\bSUBSTR\s*\(([^,]+),\s*([^,]+),\s*([^)]+)\)' -> r'SUBSTRING(\1, \2, \3)'
MatchSubstr3(t, i) ==
    LET p  == CallOpen(t, i, SUBSTR)
        c  == IF p = 0 THEN 0 ELSE UptoComma(t, p + 1)
        g2 == IF c = 0 THEN [start |-> 0, stop |-> 0] ELSE SpaceThenGroup(t, c + 1, ",")
        g3 == IF g2.start = 0 THEN [start |-> 0, stop |-> 0]
              ELSE SpaceThenGroup(t, g2.stop + 1, ")")
    IN  IF g3.start = 0 THEN NoMatch
        ELSE [end |-> g3.stop,
              rep |-> SUBSTRING \o LPAR \o SubSeq(t, p + 1, c - 1) \o COMMA_SP
                          \o SubSeq(t, g2.start, g2.stop - 1) \o COMMA_SP
                          \o SubSeq(t, g3.start, g3.stop - 1) \o RPAR]

\* r'\bSUBSTR\s*\(([^,]+),\s*([^)]+)\)' -> r'SUBSTRING(\1, \2)'
MatchSubstr2(t, i) == MatchCall2(t, i, SUBSTR, SUBSTRING)

--------------------------------------------------------------------------
(* decode_to_case, the replacement callback of the DECODE rule.          *)

\* str.split(c): the pieces between the occurrences of c, empty pieces included.
RECURSIVE Split(_, _)
Split(s, c) ==
    LET k == IndexFrom(s, 1, c)
    IN  IF k = 0 THEN <<s>>
        ELSE <<SubSeq(s, 1, k - 1)>> \o Split(SubSeq(s, k + 1, Len(s)), c)

\* match.group(1).split(',')
SplitComma(s) == Split(s, ",")

\* str.strip(): without its leading and trailing white space.
Strip(s) ==
    LET first == SkipSpace(s, 1)
    IN  IF first > Len(s) THEN <<>>
        ELSE LET last == CHOOSE j \in first..Len(s) :
                            /\ ~IsSpace(s[j])
                            /\ \A k \in (j+1)..Len(s) : IsSpace(s[k])
             IN  SubSeq(s, first, last)

\* args = [arg.strip() for arg in match.group(1).split(',')]
DecodeArgs(group1) ==
    LET pieces == SplitComma(group1)
    IN  [k \in 1..Len(pieces) |-> Strip(pieces[k])]

\* for i in range(1, len(args) - 1, 2): case_statement += f"WHEN {args[i]} THEN {args[i+1]} "
\* (i is the 0-based index of the source; args here is 1-based)
RECURSIVE WhenClauses(_, _)
WhenClauses(args, i) ==
    IF i >= Len(args) - 1 THEN <<>>
    ELSE WHEN_ \o SP \o args[i+1] \o SP \o THEN_ \o SP \o args[i+2] \o SP
         \o WhenClauses(args, i + 2)

\* Mutant of ElseClause: the test of the app7new variant, len(args) % 2 == 0.
ElseClauseIfEven(args) ==
    IF Len(args) % 2 = 0 THEN ELSE_ \o SP \o args[Len(args)] \o SP ELSE <<>>

\* if len(args) % 2 != 0: case_statement += f"ELSE {args[-1]} "
ElseClause(args) ==
    IF Len(args) % 2 # 0 THEN ELSE_ \o SP \o args[Len(args)] \o SP ELSE <<>>

\* Mutant of DecodeToCase: the guard reads len(args) < 2.
DecodeToCaseMinTwo(whole, group1) ==
    LET args == DecodeArgs(group1)
    IN  IF Len(args) < 2 THEN whole
        ELSE CASE_ \o SP \o args[1] \o SP \o WhenClauses(args, 1)
             \o ElseClause(args) \o END_

\* decode_to_case(match) for a match whose text is whole and whose group 1 is group1.
DecodeToCase(whole, group1) ==
    LET args == DecodeArgs(group1)
    IN  IF Len(args) < 3 THEN whole
        ELSE CASE_ \o SP \o args[1] \o SP \o WhenClauses(args, 1)
             \o ElseClause(args) \o END_

\* r'\bDECODE\s*\((.*?)\)' with re.DOTALL -> decode_to_case
MatchDecode(t, i) ==
    LET p == CallOpen(t, i, DECODE)
        r == IF p = 0 THEN 0 ELSE IndexFrom(t, p + 1, ")")
    IN  IF r = 0 THEN NoMatch
        ELSE [end |-> r,
              rep |-> DecodeToCase(SubSeq(t, i, r), SubSeq(t, p + 1, r - 1))]

--------------------------------------------------------------------------
(* Matchers of the other translators of the repository: app_v20.py and   *)
(* the first convert_oracle_to_snowflake of app7.py.                     *)

CAST == <<"C","A","S","T">>
AS_NUMBER == <<" ","A","S"," ","N","U","M","B","E","R">>
CAST_DATE == <<":",":","D","A","T","E">>
CAST_TEXT == <<":",":","T","E","X","T">>
EQ == <<" ","="," ">>

\* ([^,]+)(?:,\s*([^)]+))?\)  with the second group starting at a: the group
\* runs to the next comma and the optional part is tried first; without it
\* the group is cut back to the last ")" it holds.  kind is 3 (third group
\* matched), 2 (not matched) or 0 (no match from a).
SubstrTailAt(t, a) ==
    LET k  == IndexFrom(t, a, ",")
        e  == IF k = 0 THEN Len(t) ELSE k - 1
        g3 == IF k = 0 THEN [start |-> 0, stop |-> 0] ELSE SpaceThenGroup(t, k + 1, ")")
        closers == { x \in a..(e - 1) : t[x + 1] = ")" }
    IN  IF a > e THEN [kind |-> 0, g2end |-> 0, g3 |-> g3, end |-> 0]
        ELSE IF g3.start # 0 THEN [kind |-> 3, g2end |-> e, g3 |-> g3, end |-> g3.stop]
        ELSE IF closers # {}
        THEN LET x == CHOOSE c \in closers : \A d \in closers : d <= c
             IN  [kind |-> 2, g2end |-> x, g3 |-> g3, end |-> x + 1]
        ELSE [kind |-> 0, g2end |-> 0, g3 |-> g3, end |-> 0]

\* app_v20, app7new, app7:
\* r'\bSUBSTR\s*\(([^,]+),\s*([^,]+)(?:,\s*([^)]+))?\)' -> r'SUBSTRING(\1, \2, \3)'
\* \s* is greedy and gives spaces back while the rest does not match; an
\* unmatched third group is written as the empty string.
MatchSubstrOptional(t, i) ==
    LET p  == CallOpen(t, i, SUBSTR)
        c  == IF p = 0 THEN 0 ELSE UptoComma(t, p + 1)
        q  == IF c = 0 THEN 0 ELSE SkipSpace(t, c + 1)
        starts == IF c = 0 THEN {} ELSE { a \in (c + 1)..q : SubstrTailAt(t, a).kind # 0 }
    IN  IF starts = {} THEN NoMatch
        ELSE LET a == CHOOSE b \in starts : \A d \in starts : d <= b
                 m == SubstrTailAt(t, a)
             IN  [end |-> m.end,
                  rep |-> SUBSTRING \o LPAR \o SubSeq(t, p + 1, c - 1) \o COMMA_SP
                              \o SubSeq(t, a, m.g2end) \o COMMA_SP
                              \o (IF m.kind = 3
                                  THEN SubSeq(t, m.g3.start, m.g3.stop - 1)
                                  ELSE <<>>)
                              \o RPAR]

\* app_v20: r'\bDECODE\s*\(([^)]+)\)' with the decode_to_case of app_v20,
\* which is that of core_logic_v4 line for line.
MatchDecodeV20(t, i) ==
    LET p == CallOpen(t, i, DECODE)
        r == IF p = 0 THEN 0 ELSE IndexFrom(t, p + 1, ")")
    IN  IF r > p + 1
        THEN [end |-> r,
              rep |-> DecodeToCase(SubSeq(t, i, r), SubSeq(t, p + 1, r - 1))]
        ELSE NoMatch

\* Mutant of ElseClauseApp7New: the test of core_logic_v4, len(args) % 2 != 0.
ElseClauseApp7NewIfOdd(args) ==
    IF Len(args) % 2 # 0 THEN ELSE_ \o SP \o args[Len(args)] \o SP ELSE <<>>

\* app7new: if len(args) % 2 == 0: case_statement += f"ELSE {args[-1]} "
ElseClauseApp7New(args) ==
    IF Len(args) % 2 = 0 THEN ELSE_ \o SP \o args[Len(args)] \o SP ELSE <<>>

\* app7new: decode_to_case(match)
DecodeToCaseApp7New(whole, group1) ==
    LET args == DecodeArgs(group1)
    IN  IF Len(args) < 3 THEN whole
        ELSE CASE_ \o SP \o args[1] \o SP \o WhenClauses(args, 1)
             \o ElseClauseApp7New(args) \o END_

\* app7new: r'\bDECODE\s*\(([^)]+)\)' -> decode_to_case
MatchDecodeApp7New(t, i) ==
    LET p == CallOpen(t, i, DECODE)
        r == IF p = 0 THEN 0 ELSE IndexFrom(t, p + 1, ")")
    IN  IF r > p + 1
        THEN [end |-> r,
              rep |-> DecodeToCaseApp7New(SubSeq(t, i, r), SubSeq(t, p + 1, r - 1))]
        ELSE NoMatch

\* app7: r'\bDECODE\s*\(([^,]+),\s*([^,]+),\s*([^,]+),\s*([^)]+)\)'
\*       -> r'CASE WHEN \1 = \2 THEN \3 ELSE \4 END'
MatchDecode4(t, i) ==
    LET none == [start |-> 0, stop |-> 0]
        p  == CallOpen(t, i, DECODE)
        c  == IF p = 0 THEN 0 ELSE UptoComma(t, p + 1)
        g2 == IF c = 0 THEN none ELSE SpaceThenGroup(t, c + 1, ",")
        g3 == IF g2.start = 0 THEN none ELSE SpaceThenGroup(t, g2.stop + 1, ",")
        g4 == IF g3.start = 0 THEN none ELSE SpaceThenGroup(t, g3.stop + 1, ")")
    IN  IF g4.start = 0 THEN NoMatch
        ELSE [end |-> g4.stop,
              rep |-> CASE_ \o SP \o WHEN_ \o SP \o SubSeq(t, p + 1, c - 1) \o EQ
                          \o SubSeq(t, g2.start, g2.stop - 1) \o SP \o THEN_ \o SP
                          \o SubSeq(t, g3.start, g3.stop - 1) \o SP \o ELSE_ \o SP
                          \o SubSeq(t, g4.start, g4.stop - 1) \o SP \o END_]

\* r'\bKW\s*\(([^)]+)\)' at i: [open |-> position of "(", close |-> position
\* of ")"], open = 0 when it does not match.
MatchCall1(t, i, kw) ==
    LET p == CallOpen(t, i, kw)
        r == IF p = 0 THEN 0 ELSE IndexFrom(t, p + 1, ")")
    IN  IF r > p + 1 THEN [open |-> p, close |-> r] ELSE [open |-> 0, close |-> 0]

\* app7: r'\bTO_DATE\s*\(([^)]+)\)' -> r'\1::DATE'
MatchToDateCast(t, i) ==
    LET m == MatchCall1(t, i, TO_DATE)
    IN  IF m.open = 0 THEN NoMatch
        ELSE [end |-> m.close, rep |-> SubSeq(t, m.open + 1, m.close - 1) \o CAST_DATE]

\* app7: r'\bTO_CHAR\s*\(([^)]+)\)' -> r'\1::TEXT'
MatchToCharCast(t, i) ==
    LET m == MatchCall1(t, i, TO_CHAR)
    IN  IF m.open = 0 THEN NoMatch
        ELSE [end |-> m.close, rep |-> SubSeq(t, m.open + 1, m.close - 1) \o CAST_TEXT]

\* app7: r'\bTO_NUMBER\s*\(([^)]+)\)' -> r'CAST(\1 AS NUMBER)'
MatchToNumberCast(t, i) ==
    LET m == MatchCall1(t, i, TO_NUMBER)
    IN  IF m.open = 0 THEN NoMatch
        ELSE [end |-> m.close,
              rep |-> CAST \o LPAR \o SubSeq(t, m.open + 1, m.close - 1) \o AS_NUMBER \o RPAR]

\* app1_updated_v3, app_new_1:
\* r'\bDECODE\s*\(\s*([^,]+),\s*([^,]+),\s*([^,]+),\s*([^)]+)\)'
\*       -> r'CASE WHEN \1 = \2 THEN \3 ELSE \4 END'
MatchDecode4Spaced(t, i) ==
    LET none == [start |-> 0, stop |-> 0]
        p  == CallOpen(t, i, DECODE)
        g1 == IF p = 0 THEN none ELSE SpaceThenGroup(t, p + 1, ",")
        g2 == IF g1.start = 0 THEN none ELSE SpaceThenGroup(t, g1.stop + 1, ",")
        g3 == IF g2.start = 0 THEN none ELSE SpaceThenGroup(t, g2.stop + 1, ",")
        g4 == IF g3.start = 0 THEN none ELSE SpaceThenGroup(t, g3.stop + 1, ")")
    IN  IF g4.start = 0 THEN NoMatch
        ELSE [end |-> g4.stop,
              rep |-> CASE_ \o SP \o WHEN_ \o SP \o SubSeq(t, g1.start, g1.stop - 1) \o EQ
                          \o SubSeq(t, g2.start, g2.stop - 1) \o SP \o THEN_ \o SP
                          \o SubSeq(t, g3.start, g3.stop - 1) \o SP \o ELSE_ \o SP
                          \o SubSeq(t, g4.start, g4.stop - 1) \o SP \o END_]

\* app1_updated_v3, app_new_1: r'\bKW\s*\(\s*([^)]+)\)' -> r'\1' followed by suffix
MatchCastSpaced(t, i, kw, suffix) ==
    LET p == CallOpen(t, i, kw)
        g == IF p = 0 THEN [start |-> 0, stop |-> 0] ELSE SpaceThenGroup(t, p + 1, ")")
    IN  IF g.start = 0 THEN NoMatch
        ELSE [end |-> g.stop, rep |-> SubSeq(t, g.start, g.stop - 1) \o suffix]

--------------------------------------------------------------------------
(* re.sub and the rule list of convert_oracle_to_snowflake.              *)

MatchAt(rule, t, i) ==
    CASE rule = "sysdate"   -> MatchSysdate(t, i)
      [] rule = "nvl"       -> MatchNvl(t, i)
      [] rule = "to_date"   -> MatchToDate(t, i)
      [] rule = "to_char"   -> MatchToChar(t, i)
      [] rule = "to_number" -> MatchToNumber(t, i)
      [] rule = "outer_join"-> MatchOuterJoin(t, i)
      [] rule = "rownum"    -> MatchRownum(t, i)
      [] rule = "decode"    -> MatchDecode(t, i)
      [] rule = "substr3"   -> MatchSubstr3(t, i)
      [] rule = "substr2"   -> MatchSubstr2(t, i)

\* re.sub from position i on: the leftmost match is replaced and the scan
\* goes on behind it; a character no match starts at is copied.
RECURSIVE SubFrom(_, _, _)
SubFrom(rule, t, i) ==
    IF i > Len(t) THEN <<>>
    ELSE LET m == MatchAt(rule, t, i)
         IN  IF m.end > 0 THEN m.rep \o SubFrom(rule, t, m.end + 1)
             ELSE <<t[i]>> \o SubFrom(rule, t, i + 1)

\* re.sub(pattern, replacement, t, count=1): only the leftmost match is replaced.
ReSubFirstOnly(rule, t) ==
    LET hits == { i \in 1..Len(t) : MatchAt(rule, t, i).end > 0 }
    IN  IF hits = {} THEN t
        ELSE LET i == CHOOSE h \in hits : \A k \in hits : h <= k
                 m == MatchAt(rule, t, i)
             IN  SubSeq(t, 1, i - 1) \o m.rep \o SubSeq(t, m.end + 1, Len(t))

\* re.sub(pattern, replacement, t)
ReSub(rule, t) == SubFrom(rule, t, 1)

\* re.search(pattern, t) is not None
Matches(rule, t) == \E i \in 1..Len(t) : MatchAt(rule, t, i).end > 0

\* The order in which the specification lists the rules (1 SYSDATE, 2 NVL,
\* 3 DECODE, 4 TO_DATE, 5 TO_CHAR, 6 TO_NUMBER, 7 SUBSTR, 8 outer-join
\* marker, 9 ROWNUM); app_v20.convert_oracle_to_snowflake runs its rules so.
SpecRuleOrder ==
    <<"sysdate", "nvl", "decode", "to_date", "to_char", "to_number", "substr3",
      "substr2", "outer_join", "rownum">>

\* The statements of convert_oracle_to_snowflake, in the order they run.
RuleOrder ==
    <<"sysdate", "nvl", "to_date", "to_char", "to_number", "outer_join",
      "rownum", "decode", "substr3", "substr2">>

RECURSIVE ApplyRules(_, _)
ApplyRules(rules, t) ==
    IF rules = <<>> THEN t ELSE ApplyRules(Tail(rules), ReSub(Head(rules), t))

\* convert_oracle_to_snowflake(sql_text)
Convert(t) == ApplyRules(RuleOrder, t)

\* The patterns of app_v20, those shared with core_logic_v4 included.
MatchAtAppV20(rule, t, i) ==
    CASE rule = "sysdate"    -> MatchSysdate(t, i)
      [] rule = "nvl"        -> MatchNvl(t, i)
      [] rule = "decode_v20" -> MatchDecodeV20(t, i)
      [] rule = "to_date"    -> MatchToDate(t, i)
      [] rule = "to_char"    -> MatchToChar(t, i)
      [] rule = "to_number"  -> MatchToNumber(t, i)
      [] rule = "substr_opt" -> MatchSubstrOptional(t, i)
      [] rule = "outer_join" -> MatchOuterJoin(t, i)
      [] rule = "rownum"     -> MatchRownum(t, i)

\* re.sub in app_v20, from position i on.
RECURSIVE SubFromAppV20(_, _, _)
SubFromAppV20(rule, t, i) ==
    IF i > Len(t) THEN <<>>
    ELSE LET m == MatchAtAppV20(rule, t, i)
         IN  IF m.end > 0 THEN m.rep \o SubFromAppV20(rule, t, m.end + 1)
             ELSE <<t[i]>> \o SubFromAppV20(rule, t, i + 1)

\* The re.sub statements of app_v20, one after the other.
RECURSIVE ApplyRulesAppV20(_, _)
ApplyRulesAppV20(rules, t) ==
    IF rules = <<>> THEN t
    ELSE ApplyRulesAppV20(Tail(rules), SubFromAppV20(Head(rules), t, 1))

\* The statements of app_v20.convert_oracle_to_snowflake, in the order they run.
AppV20Rules ==
    <<"sysdate", "nvl", "decode_v20", "to_date", "to_char", "to_number",
      "substr_opt", "outer_join", "rownum">>

\* app_v20.convert_oracle_to_snowflake(sql_text)
ConvertAppV20(t) == ApplyRulesAppV20(AppV20Rules, t)

\* The patterns of app7new, those shared with core_logic_v4 included.
MatchAtApp7New(rule, t, i) ==
    CASE rule = "sysdate"        -> MatchSysdate(t, i)
      [] rule = "nvl"            -> MatchNvl(t, i)
      [] rule = "decode_app7new" -> MatchDecodeApp7New(t, i)
      [] rule = "to_date"        -> MatchToDate(t, i)
      [] rule = "to_char"        -> MatchToChar(t, i)
      [] rule = "to_number"      -> MatchToNumber(t, i)
      [] rule = "substr_opt"     -> MatchSubstrOptional(t, i)
      [] rule = "outer_join"     -> MatchOuterJoin(t, i)
      [] rule = "rownum"         -> MatchRownum(t, i)

\* re.sub in app7new, from position i on.
RECURSIVE SubFromApp7New(_, _, _)
SubFromApp7New(rule, t, i) ==
    IF i > Len(t) THEN <<>>
    ELSE LET m == MatchAtApp7New(rule, t, i)
         IN  IF m.end > 0 THEN m.rep \o SubFromApp7New(rule, t, m.end + 1)
             ELSE <<t[i]>> \o SubFromApp7New(rule, t, i + 1)

\* The re.sub statements of app7new, one after the other.
RECURSIVE ApplyRulesApp7New(_, _)
ApplyRulesApp7New(rules, t) ==
    IF rules = <<>> THEN t
    ELSE ApplyRulesApp7New(Tail(rules), SubFromApp7New(Head(rules), t, 1))

\* The statements of app7new.convert_oracle_to_snowflake, in the order they run.
App7NewRules ==
    <<"sysdate", "nvl", "decode_app7new", "to_date", "to_char", "to_number",
      "substr_opt", "outer_join", "rownum">>

\* app7new.convert_oracle_to_snowflake(sql_text)
ConvertApp7New(t) == ApplyRulesApp7New(App7NewRules, t)

\* The patterns of app_new_1 and app1_updated_v3, those shared with core_logic_v4 included.
MatchAtSpaced(rule, t, i) ==
    CASE rule = "sysdate"             -> MatchSysdate(t, i)
      [] rule = "nvl"                 -> MatchNvl(t, i)
      [] rule = "decode4_spaced"      -> MatchDecode4Spaced(t, i)
      [] rule = "to_date_cast_spaced" -> MatchCastSpaced(t, i, TO_DATE, CAST_DATE)
      [] rule = "to_char_cast_spaced" -> MatchCastSpaced(t, i, TO_CHAR, CAST_TEXT)
      [] rule = "outer_join"          -> MatchOuterJoin(t, i)
      [] rule = "rownum"              -> MatchRownum(t, i)

\* re.sub in app_new_1 and app1_updated_v3, from position i on.
RECURSIVE SubFromSpaced(_, _, _)
SubFromSpaced(rule, t, i) ==
    IF i > Len(t) THEN <<>>
    ELSE LET m == MatchAtSpaced(rule, t, i)
         IN  IF m.end > 0 THEN m.rep \o SubFromSpaced(rule, t, m.end + 1)
             ELSE <<t[i]>> \o SubFromSpaced(rule, t, i + 1)

\* The re.sub statements of app_new_1 and app1_updated_v3, one after the other.
RECURSIVE ApplyRulesSpaced(_, _)
ApplyRulesSpaced(rules, t) ==
    IF rules = <<>> THEN t
    ELSE ApplyRulesSpaced(Tail(rules), SubFromSpaced(Head(rules), t, 1))

\* The statements of app_new_1.convert_oracle_to_snowflake, in the order they run.
AppNew1Rules ==
    <<"sysdate", "nvl", "decode4_spaced", "to_date_cast_spaced", "to_char_cast_spaced",
      "outer_join", "rownum">>

\* app_new_1.convert_oracle_to_snowflake(sql_text)
ConvertAppNew1(t) == ApplyRulesSpaced(AppNew1Rules, t)

\* The statements of app1_updated_v3.convert_oracle_to_snowflake that assign
\* to sql_text, each with its option key.  The SYSDATE statement
\* (`if c('sysdate'): re.sub(...)`) drops what re.sub returns and is no step.
App1UpdatedV3Steps ==
    << [key |-> "nvl",               rule |-> "nvl"],
       [key |-> "decode",            rule |-> "decode4_spaced"],
       [key |-> "to_date",           rule |-> "to_date_cast_spaced"],
       [key |-> "to_char",           rule |-> "to_char_cast_spaced"],
       [key |-> "oracle_outer_join", rule |-> "outer_join"],
       [key |-> "rownum_limit",      rule |-> "rownum"] >>

\* c = lambda k: options.get(k, True)
OptionOn(options, k) == IF k \in DOMAIN options THEN options[k] ELSE TRUE

\* app1_updated_v3.convert_oracle_to_snowflake(sql_text, options); options
\* omitted or None is the empty dict.
ConvertApp1UpdatedV3(t, options) ==
    LET on == SelectSeq(App1UpdatedV3Steps, LAMBDA st : OptionOn(options, st.key))
    IN  ApplyRulesSpaced([k \in 1..Len(on) |-> on[k].rule], t)

\* The patterns of the first translator of app7.py, those shared with core_logic_v4 included.
MatchAtApp7(rule, t, i) ==
    CASE rule = "sysdate"        -> MatchSysdate(t, i)
      [] rule = "nvl"            -> MatchNvl(t, i)
      [] rule = "decode4"        -> MatchDecode4(t, i)
      [] rule = "to_date_cast"   -> MatchToDateCast(t, i)
      [] rule = "to_char_cast"   -> MatchToCharCast(t, i)
      [] rule = "to_number_cast" -> MatchToNumberCast(t, i)
      [] rule = "substr_opt"     -> MatchSubstrOptional(t, i)
      [] rule = "outer_join"     -> MatchOuterJoin(t, i)
      [] rule = "rownum"         -> MatchRownum(t, i)

\* re.sub in the first translator of app7.py, from position i on.
RECURSIVE SubFromApp7(_, _, _)
SubFromApp7(rule, t, i) ==
    IF i > Len(t) THEN <<>>
    ELSE LET m == MatchAtApp7(rule, t, i)
         IN  IF m.end > 0 THEN m.rep \o SubFromApp7(rule, t, m.end + 1)
             ELSE <<t[i]>> \o SubFromApp7(rule, t, i + 1)

\* The re.sub statements of the first translator of app7.py, one after the other.
RECURSIVE ApplyRulesApp7(_, _)
ApplyRulesApp7(rules, t) ==
    IF rules = <<>> THEN t
    ELSE ApplyRulesApp7(Tail(rules), SubFromApp7(Head(rules), t, 1))

\* The statements of the first convert_oracle_to_snowflake of app7.py.
App7Rules ==
    <<"sysdate", "nvl", "decode4", "to_date_cast", "to_char_cast",
      "to_number_cast", "substr_opt", "outer_join", "rownum">>

\* app7.convert_oracle_to_snowflake(sql_text), first definition
ConvertApp7(t) == ApplyRulesApp7(App7Rules, t)

--------------------------------------------------------------------------
(* convert_oracle_to_snowflake as a process: pc is the index in          *)
(* RuleOrder of the re.sub statement about to run; behind the last one   *)
(* the function returns.                                                 *)

Returning == Len(RuleOrder) + 1
Returned  == Len(RuleOrder) + 2

\* The statement about to run is the re.sub of rule.
AtRule(rule) == pc \in 1..Len(RuleOrder) /\ RuleOrder[pc] = rule

\* What a re.sub statement leaves alone; control moves to the next statement.
Advance ==
    /\ prev_text' = sql_text
    /\ pc' = pc + 1
    /\ UNCHANGED <<src_text, pass, first_out>>
    /\ UNCHANGED <<batchVars, fnVars, appVars>>

\* The re.sub statement of rule: sql_text = re.sub(pattern, replacement,
\* sql_text, flags=re.IGNORECASE).
Substitute(rule) ==
    /\ AtRule(rule)
    /\ sql_text' = ReSub(rule, sql_text)
    /\ Advance

\* return sql_text
Return ==
    /\ pc = Returning
    /\ pc' = Returned
    /\ first_out' = IF pass = 1 THEN sql_text ELSE first_out
    /\ UNCHANGED <<src_text, sql_text, prev_text, pass>>
    /\ UNCHANGED <<batchVars, fnVars, appVars>>

\* A caller hands the returned text to convert_oracle_to_snowflake once more.
ConvertAgain ==
    /\ pc = Returned
    /\ pass = 1
    /\ pass' = 2
    /\ pc' = 1
    /\ UNCHANGED <<src_text, sql_text, prev_text, first_out>>
    /\ UNCHANGED <<batchVars, fnVars, appVars>>

NextConv ==
    \/ \E k \in DOMAIN RuleOrder : Substitute(RuleOrder[k])
    \/ Return
    \/ ConvertAgain

\* The batch handler is idle while the translator is studied on its own.
BatchIdle ==
    /\ uploaded_files = <<>>
    /\ source_type = "SQL File"
    /\ bpc = "idle"
    /\ idx = 0
    /\ files_data = <<>>
    /\ converted_files = {}
    /\ migration_summary = <<>>
    /\ written = <<>>
    /\ calls = <<>>
    /\ reported = {}

\* The other applications have not run: summary.txt does not exist and the
\* navigation of app1_updated_v3 is on its first page.
NavIdle ==
    /\ page_index = 0
    /\ sidebar_radio = 0
    /\ rerun_requested = FALSE
    /\ radio_identity = "parameters"
    /\ nav_event = "none"

AppIdle ==
    /\ summary_txt = <<>>
    /\ NavIdle

\* No single function call is under study.
FnIdle ==
    /\ called = "none"
    /\ call_args = <<>>
    /\ returned = <<>>

\* convert_oracle_to_snowflake is called with one of the texts of inputs.
InitConv(inputs) ==
    /\ src_text \in inputs
    /\ sql_text = src_text
    /\ prev_text = src_text
    /\ pc = 1
    /\ pass = 1
    /\ first_out = <<>>
    /\ BatchIdle
    /\ AppIdle
    /\ FnIdle

--------------------------------------------------------------------------
(* Input texts are drawn from bounded families.                          *)

\* The texts made of 1..n tokens of the set tokens, written one after another.
TokenTexts(tokens, n) == { Cat(ts) : ts \in UNION { [1..k -> tokens] : k \in 1..n } }

--------------------------------------------------------------------------
(* Input texts: DECODE calls.                                            *)

MaxDecodeArgs == 6

\* The arguments of the documented example DECODE(x, 1, 'A', 2, 'B', 'C'),
\* continued for longer calls.
ExampleArgs ==
    << <<"x">>, <<"1">>, <<"'","A","'">>, <<"2">>, <<"'","B","'">>,
       <<"'","C","'">>, <<"3">>, <<"'","D","'">> >>

ExampleArg(k) == IF k <= Len(ExampleArgs) THEN ExampleArgs[k] ELSE <<"z">>

\* Argument lists of 1..n comma-free arguments: position k holds the example's
\* k-th argument or the column y.
DecodeArgLists(n) ==
    UNION { { [j \in 1..k |-> IF pick[j] = 1 THEN ExampleArg(j) ELSE <<"y">>] :
                pick \in [1..k -> {0, 1}] } : k \in 1..n }

\* head(a1<sep>a2<sep>...)
CallText(head, args, sep) == head \o LPAR \o Join(args, sep) \o RPAR

DecodeHeads == { DECODE, <<"d","e","c","o","d","e"," ">> }

Separators == { COMMA, COMMA_SP }

\* Calls with an empty argument list or an empty last argument:
\* DECODE(), DECODE(x,), DECODE(x, ).
ShortDecodeInputs ==
    { h \o LPAR \o a \o RPAR :
        h \in DecodeHeads, a \in { <<>>, <<"x", ",">>, <<"x", ",", " ">> } }

DecodeInputs ==
    { CallText(h, args, sep) :
        h \in DecodeHeads, args \in DecodeArgLists(MaxDecodeArgs), sep \in Separators }
    \cup ShortDecodeInputs

InitDecode == InitConv(DecodeInputs)

SpecDecode == InitDecode /\ [][NextConv]_vars

\* The first call has returned.
FirstCallDone == pc = Returned /\ pass = 1

\* CASE e WHEN m1 THEN r1 ... WHEN mk THEN rk [ELSE d] END for the arguments
\* e, m1, r1, ..., mk, rk [, d] - Oracle's reading of DECODE.
OracleCase(args) ==
    LET n == Len(args)
        k == (n - 1) \div 2
        whens == [j \in 1..k |-> WHEN_ \o SP \o args[2*j] \o SP \o THEN_ \o SP
                                  \o args[2*j + 1] \o SP]
    IN  CASE_ \o SP \o args[1] \o SP \o Cat(whens)
        \o (IF n % 2 = 0 THEN ELSE_ \o SP \o args[n] \o SP ELSE <<>>) \o END_

\* C1: every DECODE call with a trailing default (e, m1, r1, ..., mk, rk, d:
\* an even number of arguments, at least 4) is rewritten to exactly
\* CASE e WHEN m1 THEN r1 ... WHEN mk THEN rk ELSE d END.
C1_DecodeWithDefault ==
    FirstCallDone =>
        \A h \in DecodeHeads, sep \in Separators, args \in DecodeArgLists(MaxDecodeArgs) :
            (Len(args) >= 4 /\ Len(args) % 2 = 0 /\ src_text = CallText(h, args, sep))
                => sql_text = OracleCase(args)

\* C2: every DECODE call without a default (e, m1, r1, ..., mk, rk: an odd
\* number of arguments, at least 3) is rewritten to exactly
\* CASE e WHEN m1 THEN r1 ... WHEN mk THEN rk END, with no ELSE clause.
C2_DecodeWithoutDefault ==
    FirstCallDone =>
        \A h \in DecodeHeads, sep \in Separators, args \in DecodeArgLists(MaxDecodeArgs) :
            (Len(args) >= 3 /\ Len(args) % 2 = 1 /\ src_text = CallText(h, args, sep))
                => (sql_text = OracleCase(args) /\ ~Contains(sql_text, ELSE_))

\* The words of a CASE expression: its text split at the blanks.
Words(t) == Split(t, " ")

\* C3: for a DECODE call with n >= 3 arguments the generated text is CASE, the
\* first argument, then WHEN a THEN b for the arguments taken two at a time
\* from the second one on ((n-1) div 2 pairs), then ELSE with the last
\* argument if and only if n is odd, then END.
C3_PairsAndElseIffOdd ==
    FirstCallDone =>
        \A h \in DecodeHeads, sep \in Separators, args \in DecodeArgLists(MaxDecodeArgs) :
            (Len(args) >= 3 /\ src_text = CallText(h, args, sep)) =>
                LET n == Len(args)
                    p == (n - 1) \div 2
                    w == Words(sql_text)
                IN  /\ Len(w) = IF n % 2 = 1 THEN 4*p + 5 ELSE 4*p + 3
                    /\ w[1] = CASE_
                    /\ w[2] = args[1]
                    /\ \A j \in 1..p :
                          /\ w[4*j - 1] = WHEN_
                          /\ w[4*j]     = args[2*j]
                          /\ w[4*j + 1] = THEN_
                          /\ w[4*j + 2] = args[2*j + 1]
                    /\ (n % 2 = 1) <=> (\E j \in 1..Len(w) : w[j] = ELSE_)
                    /\ (n % 2 = 1) => (w[4*p + 3] = ELSE_ /\ w[4*p + 4] = args[n])
                    /\ w[Len(w)] = END_

\* C3 witness: a five-argument call has been rewritten and carries an ELSE;
\* a four-argument call has been rewritten and carries none.
C3_Witness ==
    /\ FirstCallDone
    /\ src_text = CallText(DECODE, [j \in 1..5 |-> ExampleArg(j)], COMMA_SP)
    /\ Contains(sql_text, ELSE_ \o SP \o ExampleArg(5) \o SP \o END_)

--------------------------------------------------------------------------
(* Input texts: outer-join markers and the characters they are made of.  *)

MaxMarkerTokens == 4

MarkerTokens == { MARKER, LPAR, <<"+">>, RPAR, <<"a">> }

MarkerInputs == TokenTexts(MarkerTokens, MaxMarkerTokens)

InitMarker == InitConv(MarkerInputs)

SpecMarker == InitMarker /\ [][NextConv]_vars

\* The position of rule in RuleOrder.
RuleIndex(rule) == CHOOSE k \in 1..Len(RuleOrder) : RuleOrder[k] = rule

\* The re.sub of rule has just run in the first call: prev_text is what it
\* read and sql_text what it wrote.
JustRan(rule) == pass = 1 /\ pc = RuleIndex(rule) + 1

\* The positions of t at which the three characters (+) stand.
MarkerPositions(t) == { i \in 1..Len(t) : LitAt(t, i, MARKER) }

\* C8 as stated: the text the outer-join-marker rule writes contains no
\* "(+)" at all.
C8_NoMarkerLeft == JustRan("outer_join") => ~Contains(sql_text, MARKER)

\* C8 amended: the rule deletes every "(+)" that stands in the text it reads
\* (three characters per occurrence, nothing else), and the text it writes
\* contains "(+)" only if the text it read held a marker directly behind a
\* "(" or directly before a ")".
C8_MarkersOfInputRemoved ==
    JustRan("outer_join") =>
        /\ Len(sql_text) = Len(prev_text) - 3 * Cardinality(MarkerPositions(prev_text))
        /\ \A i \in 1..Len(prev_text) :
              (\A m \in MarkerPositions(prev_text) : i < m \/ i > m + 2) =>
                  sql_text[i - 3 * Cardinality({m \in MarkerPositions(prev_text) : m < i})]
                      = prev_text[i]
        /\ (~Contains(prev_text, LPAR \o MARKER) /\ ~Contains(prev_text, MARKER \o RPAR))
              => ~Contains(sql_text, MARKER)

\* C8 witness: the rule has removed two markers from a(+)a(+).
C8_Witness ==
    /\ JustRan("outer_join")
    /\ prev_text = <<"a">> \o MARKER \o <<"a">> \o MARKER
    /\ sql_text = <<"a", "a">>

--------------------------------------------------------------------------
(* Input texts: SYSDATE in several letter cases, alone, inside longer    *)
(* identifiers, and in pieces around an outer-join marker.               *)

MaxSysdateTokens == 3

SysdateTokens ==
    { SYSDATE, <<"s","y","s","D","a","t","e">>, <<"S","Y","S">>, <<"D","A","T","E">>,
      MARKER, SP, <<"X">> }

SysdateInputs == TokenTexts(SysdateTokens, MaxSysdateTokens)

InitSysdate == InitConv(SysdateInputs)

SpecSysdate == InitSysdate /\ [][NextConv]_vars

\* SYSDATE (any letter case) stands at position i as a whole word: no letter,
\* digit or underscore directly before or behind it.
SysdateTokenAt(t, i) ==
    /\ KwAt(t, i, SYSDATE)
    /\ i = 1 \/ ~IsWordChar(t[i-1])
    /\ i + 7 > Len(t) \/ ~IsWordChar(t[i+7])

SysdatePositions(t) == { i \in 1..Len(t) : SysdateTokenAt(t, i) }

\* Every SYSDATE token of the text read is CURRENT_TIMESTAMP in the text
\* written (10 characters longer each), at the place the token had.
SysdateTokensReplaced(read, wrote) ==
    /\ Len(wrote) = Len(read) + 10 * Cardinality(SysdatePositions(read))
    /\ \A i \in SysdatePositions(read) :
          LitAt(wrote, i + 10 * Cardinality({m \in SysdatePositions(read) : m < i}),
                CURRENT_TIMESTAMP)

\* C6 as stated: the final output has CURRENT_TIMESTAMP in place of each
\* SYSDATE token and holds no occurrence of SYSDATE in any letter case.
C6_NoSysdateLeft ==
    /\ JustRan("sysdate") => SysdateTokensReplaced(prev_text, sql_text)
    /\ FirstCallDone => ~ContainsCI(sql_text, SYSDATE)

\* C6 amended: the SYSDATE rule puts CURRENT_TIMESTAMP in place of each
\* whole-word SYSDATE (any letter case) and leaves no whole-word SYSDATE; the
\* final output holds no whole-word SYSDATE unless the input held an
\* outer-join marker, whose removal can join pieces into one.
C6_WholeWordSysdateReplaced ==
    /\ JustRan("sysdate") =>
          /\ SysdateTokensReplaced(prev_text, sql_text)
          /\ SysdatePositions(sql_text) = {}
    /\ (FirstCallDone /\ ~Contains(src_text, MARKER)) => SysdatePositions(sql_text) = {}

\* C6 witness: "sysDate SYSDATE" has become two CURRENT_TIMESTAMPs.
C6_Witness ==
    /\ FirstCallDone
    /\ src_text = <<"s","y","s","D","a","t","e">> \o SP \o SYSDATE
    /\ sql_text = CURRENT_TIMESTAMP \o SP \o CURRENT_TIMESTAMP

--------------------------------------------------------------------------
(* Input texts: calls of the functions the rules rewrite - single calls  *)
(* with one to MaxCallArgs arguments, NVL calls inside a statement, a    *)
(* call as the first argument of another, the ROWNUM idiom, and DECODE   *)
(* calls whose arguments hold text of other rules.                       *)

MaxCallArgs == 3

CallKeywords == { NVL, TO_DATE, TO_CHAR, TO_NUMBER, SUBSTR }

\* KW( and kw ( - lower case, a blank before the parenthesis.
HeadsOf(kw) == { kw, LowerText(kw) \o SP }

CallHeads == UNION { HeadsOf(kw) : kw \in CallKeywords }

\* A column, a literal, a call of a function no rule knows.
CallArgPool == { <<"x">>, <<"'","A","'">>, <<"f","(","y",")">> }

CallArgLists(n) == UNION { [1..k -> CallArgPool] : k \in 1..n }

SimpleCallInputs ==
    { CallText(h, args, sep) :
        h \in CallHeads, args \in CallArgLists(MaxCallArgs), sep \in Separators }

NvlContexts == { <<<<>>, <<>>>>, <<<<"s"," ">>, <<" ","t">>>>, <<<<"(">>, <<")">>>> }

NvlInputs ==
    { c[1] \o CallText(h, <<a, b>>, sep) \o c[2] :
        c \in NvlContexts, h \in HeadsOf(NVL), a \in CallArgPool, b \in CallArgPool,
        sep \in Separators }

NestedInputs ==
    { CallText(h1, <<CallText(h2, <<<<"x">>, <<"y">>>>, COMMA), <<"z">>>>, COMMA) :
        h1 \in CallKeywords \cup {DECODE}, h2 \in CallKeywords \cup {DECODE} }

RownumInputs ==
    { h \o w1 \o LE \o w2 \o n :
        h \in {ROWNUM, LowerText(ROWNUM)}, w1 \in {<<>>, SP}, w2 \in {<<>>, SP},
        n \in {<<"5">>, <<"1","0">>} }

SingleTokenInputs == { SYSDATE, LowerText(SYSDATE), <<"a">> \o MARKER }

MixedArgPool == { <<"x">> \o MARKER, CallText(TO_NUMBER, <<<<"y">>>>, COMMA), <<"1">> }

MixedDecodeInputs ==
    { CallText(DECODE, args, COMMA_SP) : args \in [1..3 -> MixedArgPool] }

\* The ROWNUM idiom inside a WHERE clause.
RownumContexts ==
    { << <<"W","H","E","R","E"," ">>, <<>> >>,
      << <<"W","H","E","R","E"," ","x","="," ","1"," ","A","N","D"," ">>,
         <<" ","O","R","D","E","R"," ","B","Y"," ","x">> >> }

RownumInContext == { c[1] \o r \o c[2] : c \in RownumContexts, r \in RownumInputs }

CallsInputs ==
    SimpleCallInputs \cup NvlInputs \cup NestedInputs \cup RownumInputs
        \cup SingleTokenInputs \cup MixedDecodeInputs \cup RownumInContext

InitCalls == InitConv(CallsInputs)

SpecCalls == InitCalls /\ [][NextConv]_vars

\* The second call is about to start: sql_text is what the first call returned.
SecondCallStarts == pass = 2 /\ pc = 1

\* The second call has returned.
SecondCallDone == pass = 2 /\ pc = Returned

\* The statements of rules 1, 2, 4-9 (all but the DECODE rule).
NonDecodeRules ==
    { "sysdate", "nvl", "to_date", "to_char", "to_number", "substr3", "substr2",
      "outer_join", "rownum" }

\* C7 as stated: in the text the first call returned, none of the patterns
\* of rules 1, 2, 4-9 matches anywhere.
C7_NoPatternMatchesOutput ==
    SecondCallStarts => \A r \in NonDecodeRules : ~Matches(r, sql_text)

\* Single calls, idioms and tokens of rules 1, 2, 4-9 whose arguments hold no
\* call of a rewritten function and no outer-join marker.
StableInputs == SimpleCallInputs \cup RownumInputs \cup SingleTokenInputs

\* C7 amended: for an input that is one call, idiom or token of rules 1, 2,
\* 4-9 with no rewritten call and no marker inside its arguments, no pattern
\* of rules 1, 2, 5-9 matches in the first call's output, and the second call
\* returns that output unchanged (rule 4 included: its pattern matches
\* TO_DATE(a, b) again and rewrites it to the same text).
C7_SimpleCallsStable ==
    /\ (SecondCallStarts /\ src_text \in StableInputs) =>
          \A r \in NonDecodeRules \ {"to_date"} : ~Matches(r, sql_text)
    /\ (SecondCallDone /\ src_text \in StableInputs) => sql_text = first_out

\* C7 witness: TO_CHAR(x,'A') went through both calls and is
\* TO_VARCHAR(x, 'A') after each.
C7_Witness ==
    /\ SecondCallDone
    /\ src_text = CallText(TO_CHAR, <<<<"x">>, <<"'","A","'">>>>, COMMA)
    /\ first_out = CallText(TO_VARCHAR, <<<<"x">>, <<"'","A","'">>>>, COMMA_SP)
    /\ sql_text = first_out

\* C9 as stated: the output is what the rules give when applied once each in
\* the order the specification lists them.
C9_SpecOrderOutput == FirstCallDone => sql_text = ApplyRules(SpecRuleOrder, src_text)

\* C9 amended: the rules are applied once each in the order SYSDATE, NVL,
\* TO_DATE, TO_CHAR, TO_NUMBER, outer-join marker, ROWNUM, DECODE, SUBSTR
\* (three arguments, then two): every statement reads what the one before
\* it wrote, and the output is the composition in that order.
C9_CodeOrderOutput ==
    /\ pc \in 1..Returning /\ pc > 1 =>
          sql_text = ReSub(<<"sysdate", "nvl", "to_date", "to_char", "to_number",
                             "outer_join", "rownum", "decode", "substr3",
                             "substr2">>[pc - 1], prev_text)
    /\ FirstCallDone =>
          sql_text =
            ReSub("substr2", ReSub("substr3", ReSub("decode", ReSub("rownum",
              ReSub("outer_join", ReSub("to_number", ReSub("to_char",
                ReSub("to_date", ReSub("nvl", ReSub("sysdate", src_text))))))))))

\* C9 witness: DECODE(x(+), 1, 1) lost its marker before the DECODE rule ran
\* and has become a CASE expression on x, which the listed order does not give.
C9_Witness ==
    /\ FirstCallDone
    /\ src_text = CallText(DECODE, <<<<"x">> \o MARKER, <<"1">>, <<"1">>>>, COMMA_SP)
    /\ sql_text = CASE_ \o SP \o <<"x">> \o SP \o WHEN_ \o SP \o <<"1">> \o SP \o THEN_
                    \o SP \o <<"1">> \o SP \o ELSE_ \o SP \o <<"1">> \o SP \o END_
    /\ sql_text # ApplyRules(SpecRuleOrder, src_text)

\* C10: for a call NVL(a, b) - a up to the first comma, b up to the closing
\* parenthesis - the output contains COALESCE(a, b) with a and b as written.
C10_NvlToCoalesce ==
    FirstCallDone =>
        \A c \in NvlContexts, h \in HeadsOf(NVL), a \in CallArgPool, b \in CallArgPool,
           sep \in Separators :
            src_text = c[1] \o CallText(h, <<a, b>>, sep) \o c[2]
                => /\ Contains(sql_text, CallText(COALESCE, <<a, b>>, COMMA_SP))
                   /\ ~ContainsCI(sql_text, NVL)

\* C10 witness: "s nvl (x,f(y)) t" has become "s COALESCE(x, f(y)) t".
C10_Witness ==
    /\ FirstCallDone
    /\ src_text = <<"s"," ">> \o CallText(LowerText(NVL) \o SP,
                                         <<<<"x">>, <<"f","(","y",")">>>>, COMMA)
                    \o <<" ","t">>
    /\ sql_text = <<"s"," ">> \o CallText(COALESCE, <<<<"x">>, <<"f","(","y",")">>>>,
                                         COMMA_SP) \o <<" ","t">>

--------------------------------------------------------------------------
\* streamlit_app_v4.migration_settings_tab: the "Convert and Save Models"
\* click handler and its loop over the uploaded files.

MaxFiles == 2

\* File names of the uploader; two of them differ only in a character that
\* the sanitiser replaces.
FileNames ==
    { <<"a", ".", "s", "q", "l">>,
      <<"a", "-", "b", ".", "s", "q", "l">>,
      <<"a", "_", "b", ".", "s", "q", "l">> }

\* What a file holds: bytes that are not UTF-8, or text given by the types
\* sqlparse reports for its statements (none for blank text).
FileContents ==
    { [decodable |-> FALSE, stmts |-> <<>>] }
        \cup { [decodable |-> TRUE, stmts |-> st] :
                 st \in { <<>>, <<"SELECT">>, <<"SELECT", "CREATE">> } }

UploadedFile == { [name |-> n, decodable |-> c.decodable, stmts |-> c.stmts] :
                    n \in FileNames, c \in FileContents }

SourceTypes == { "SQL File", "Procedure", "Function", "Package", "View" }

CrewSourceTypes == { "Procedure", "Function", "Package", "View" }

AllowedStatementTypes == { "SELECT", "INSERT", "UPDATE", "DELETE", "WITH", "CTE" }

\* Mutant of ValidateSql: only the first statement's type is looked at.
ValidateSqlFirstOnly(stmts) ==
    IF stmts = <<>>
    THEN [ok |-> FALSE, message |-> <<"Empty or invalid SQL.">>]
    ELSE IF stmts[1] \notin AllowedStatementTypes
    THEN [ok |-> FALSE,
          message |-> <<"Unsupported SQL statement type: ", stmts[1],
                        ". Only DML is allowed.">>]
    ELSE [ok |-> TRUE, message |-> <<"SQL syntax looks valid.">>]

\* validate_sql: blank text and text without statements are invalid; so is
\* text with a statement whose type is not allowed (the first one is named).
ValidateSql(stmts) ==
    IF stmts = <<>>
    THEN [ok |-> FALSE, message |-> <<"Empty or invalid SQL.">>]
    ELSE IF \E i \in DOMAIN stmts : stmts[i] \notin AllowedStatementTypes
    THEN LET i == CHOOSE k \in DOMAIN stmts :
                      /\ stmts[k] \notin AllowedStatementTypes
                      /\ \A j \in 1..(k - 1) : stmts[j] \in AllowedStatementTypes
         IN  [ok |-> FALSE,
              message |-> <<"Unsupported SQL statement type: ", stmts[i],
                            ". Only DML is allowed.">>]
    ELSE [ok |-> TRUE, message |-> <<"SQL syntax looks valid.">>]

\* The gate with every file let through.
ConvertAllowedAlways(is_valid) == TRUE

\* `if not is_valid: ... continue`: the translator runs only for a valid file.
ConvertAllowed(is_valid) == is_valid

\* os.path.splitext(file_name)[0]: the name up to its last dot, a leading dot
\* not counting.
BaseName(name) ==
    LET dots == { i \in 2..Len(name) : name[i] = "." /\ \E j \in 1..(i - 1) : name[j] # "." }
    IN  IF dots = {} THEN name
        ELSE SubSeq(name, 1, (CHOOSE i \in dots : \A j \in dots : j <= i) - 1)

\* re.sub(r'[^a-zA-Z0-9_.]', '_', base_name)
SafeName(name) ==
    LET base == BaseName(name)
    IN  [i \in 1..Len(base) |->
            IF IsWordChar(base[i]) \/ base[i] = "." THEN base[i] ELSE "_"]

\* output_dir / f"{safe_name}.sql", relative to output_dir.
OutputFilename(name) == SafeName(name) \o <<".", "s", "q", "l">>

\* d[key] = value on a dict kept as a sequence of entries in insertion order.
RECURSIVE DictFrom(_)
DictFrom(files) ==
    IF files = <<>> THEN <<>>
    ELSE LET n    == Len(files)
             rest == DictFrom(SubSeq(files, 1, n - 1))
             f    == [name |-> files[n].name, stmts |-> files[n].stmts]
         IN  IF \E i \in DOMAIN rest : rest[i].name = f.name
             THEN [i \in DOMAIN rest |-> IF rest[i].name = f.name THEN f ELSE rest[i]]
             ELSE Append(rest, f)

\* st.session_state['migration_summary'][file_name] = entry
SetSummary(summary, name, entry) ==
    [n \in DOMAIN summary \cup {name} |-> IF n = name THEN entry ELSE summary[n]]

Failure(message) == [status |-> "Failure", detail |-> message]

Success(detail) == [status |-> "Success", detail |-> detail]

\* The translator is not running while the handler is studied.
ConvIdle ==
    /\ src_text = <<>>
    /\ sql_text = <<>>
    /\ prev_text = <<>>
    /\ pc = 0
    /\ pass = 0
    /\ first_out = <<>>

\* The page as rendered before the click: files chosen, a source type
\* selected, the session state of a fresh session.
InitBatch ==
    /\ ConvIdle
    /\ AppIdle
    /\ FnIdle
    /\ uploaded_files \in UNION { [1..n -> UploadedFile] : n \in 0..MaxFiles }
    /\ source_type \in SourceTypes
    /\ bpc = "idle"
    /\ idx = 0
    /\ files_data = <<>>
    /\ converted_files = {}
    /\ migration_summary = <<>>
    /\ written = <<>>
    /\ calls = <<>>
    /\ reported = {}

\* The file the loop is at.
Current == files_data[idx]

AtFile == bpc = "for" /\ idx \in 1..Len(files_data)

\* Click with no file uploaded: the warning of the else branch.
ClickNoFiles ==
    /\ bpc = "idle"
    /\ uploaded_files = <<>>
    /\ bpc' = "warned"
    /\ UNCHANGED <<uploaded_files, source_type, idx, files_data, converted_files,
                   migration_summary, written, calls, reported>>
    /\ UNCHANGED <<convVars, fnVars, appVars>>

\* Click with a file whose bytes are not UTF-8: file.read().decode("utf-8")
\* raises in the dict comprehension, outside every try, and the handler ends
\* with the session state as it was.
ClickDecodeRaises ==
    /\ bpc = "idle"
    /\ uploaded_files # <<>>
    /\ \E i \in DOMAIN uploaded_files : ~uploaded_files[i].decodable
    /\ bpc' = "crashed"
    /\ UNCHANGED <<uploaded_files, source_type, idx, files_data, converted_files,
                   migration_summary, written, calls, reported>>
    /\ UNCHANGED <<convVars, fnVars, appVars>>

\* Click with every file decodable: the session state is set up and the loop
\* starts.
ClickStartsLoop ==
    /\ bpc = "idle"
    /\ uploaded_files # <<>>
    /\ \A i \in DOMAIN uploaded_files : uploaded_files[i].decodable
    /\ files_data' = DictFrom(uploaded_files)
    /\ converted_files' = {}
    /\ migration_summary' = <<>>
    /\ idx' = 1
    /\ bpc' = "for"
    /\ UNCHANGED <<uploaded_files, source_type, written, calls, reported>>
    /\ UNCHANGED <<convVars, fnVars, appVars>>

\* "SQL File": validate_sql rejects the file; error, Failure entry, continue.
ValidateFails ==
    /\ AtFile
    /\ source_type = "SQL File"
    /\ LET v == ValidateSql(Current.stmts)
       IN  /\ ~ConvertAllowed(v.ok)
           /\ migration_summary' =
                 SetSummary(migration_summary, Current.name, Failure(v.message))
    /\ calls' = Append(calls, <<"validate_sql", Current.name>>)
    /\ reported' = reported \cup {Current.name}
    /\ idx' = idx + 1
    /\ UNCHANGED <<uploaded_files, source_type, bpc, files_data, converted_files, written>>
    /\ UNCHANGED <<convVars, fnVars, appVars>>

\* "SQL File": validate_sql accepts the file; control reaches the spinner.
ValidatePasses ==
    /\ AtFile
    /\ source_type = "SQL File"
    /\ ConvertAllowed(ValidateSql(Current.stmts).ok)
    /\ calls' = Append(calls, <<"validate_sql", Current.name>>)
    /\ bpc' = "convert"
    /\ UNCHANGED <<uploaded_files, source_type, idx, files_data, converted_files,
                   migration_summary, written, reported>>
    /\ UNCHANGED <<convVars, fnVars, appVars>>

\* "SQL File": translate, wrap, record the success.
ConvertRegex ==
    /\ bpc = "convert"
    /\ calls' = calls \o << <<"convert_oracle_to_snowflake", Current.name>>,
                           <<"wrap_sql_in_dbt_model", Current.name>> >>
    /\ migration_summary' =
          SetSummary(migration_summary, Current.name, Success(<<"Converted via regex">>))
    /\ bpc' = "write"
    /\ UNCHANGED <<uploaded_files, source_type, idx, files_data, converted_files,
                   written, reported>>
    /\ UNCHANGED <<convVars, fnVars, appVars>>

\* Procedure, Function, Package, View: run_crew_migration returns a wrapped
\* model and "Success" (it has translated and wrapped the agents' SQL).
CrewSucceeds ==
    /\ AtFile
    /\ source_type \in CrewSourceTypes
    /\ calls' = calls \o << <<"run_crew_migration", Current.name>>,
                           <<"convert_oracle_to_snowflake", Current.name>>,
                           <<"wrap_sql_in_dbt_model", Current.name>> >>
    /\ migration_summary' = SetSummary(migration_summary, Current.name, Success(<<>>))
    /\ bpc' = "write"
    /\ UNCHANGED <<uploaded_files, source_type, idx, files_data, converted_files,
                   written, reported>>
    /\ UNCHANGED <<convVars, fnVars, appVars>>

\* Procedure, Function, Package, View: run_crew_migration returns
\* (None, "Failure: ..."); error, continue.
CrewFails ==
    /\ AtFile
    /\ source_type \in CrewSourceTypes
    /\ calls' = Append(calls, <<"run_crew_migration", Current.name>>)
    /\ migration_summary' =
          SetSummary(migration_summary, Current.name, Failure(<<"crew">>))
    /\ reported' = reported \cup {Current.name}
    /\ idx' = idx + 1
    /\ UNCHANGED <<uploaded_files, source_type, bpc, files_data, converted_files, written>>
    /\ UNCHANGED <<convVars, fnVars, appVars>>

\* The output file is written and the model kept in converted_files.
WriteOutput ==
    /\ bpc = "write"
    /\ written' = Append(written, [path |-> OutputFilename(Current.name),
                                   name |-> Current.name])
    /\ converted_files' = converted_files \cup {Current.name}
    /\ idx' = idx + 1
    /\ bpc' = "for"
    /\ UNCHANGED <<uploaded_files, source_type, files_data, migration_summary,
                   calls, reported>>
    /\ UNCHANGED <<convVars, fnVars, appVars>>

\* Mutant of WriteRaises: the except branch reports the file but leaves its
\* summary entry as it is.
WriteRaisesKeepsSummary ==
    /\ bpc = "write"
    /\ reported' = reported \cup {Current.name}
    /\ idx' = idx + 1
    /\ bpc' = "for"
    /\ UNCHANGED <<uploaded_files, source_type, files_data, converted_files,
                   migration_summary, written, calls>>
    /\ UNCHANGED <<convVars, fnVars, appVars>>

\* open() or write() raises: the except branch reports the file and
\* overwrites its summary entry.
WriteRaises ==
    /\ bpc = "write"
    /\ reported' = reported \cup {Current.name}
    /\ migration_summary' =
          SetSummary(migration_summary, Current.name, Failure(<<"write">>))
    /\ idx' = idx + 1
    /\ bpc' = "for"
    /\ UNCHANGED <<uploaded_files, source_type, files_data, converted_files,
                   written, calls>>
    /\ UNCHANGED <<convVars, fnVars, appVars>>

\* The loop is exhausted: the "All files processed!" toast.
Finish ==
    /\ bpc = "for"
    /\ idx = Len(files_data) + 1
    /\ bpc' = "done"
    /\ UNCHANGED <<uploaded_files, source_type, idx, files_data, converted_files,
                   migration_summary, written, calls, reported>>
    /\ UNCHANGED <<convVars, fnVars, appVars>>

NextBatch ==
    \/ ClickNoFiles
    \/ ClickDecodeRaises
    \/ ClickStartsLoop
    \/ ValidateFails
    \/ ValidatePasses
    \/ ConvertRegex
    \/ CrewSucceeds
    \/ CrewFails
    \/ WriteOutput
    \/ WriteRaises
    \/ Finish

SpecBatch == InitBatch /\ [][NextBatch]_vars

\* The click handler has ended, normally or by an uncaught exception.
HandlerEnded == bpc \in {"done", "crashed"}

\* The fn calls made for the file called name.
CalledFor(fn, name) == \E i \in DOMAIN calls : calls[i] = <<fn, name>>

WrittenFor(name) == \E i \in DOMAIN written : written[i].name = name

\* C4 as stated: a file that cannot be decoded is skipped and the others
\* are still processed: when the handler has ended, every decodable file of
\* the batch has been processed to completion (it has its entry in
\* migration_summary), whatever the other files of the batch hold.
C4_FailureSkipsOnlyThatFile ==
    HandlerEnded =>
        \A i \in DOMAIN uploaded_files :
            uploaded_files[i].decodable =>
                uploaded_files[i].name \in DOMAIN migration_summary

\* C5: with source type "SQL File", a file that validate_sql rejects is never
\* handed to convert_oracle_to_snowflake or wrap_sql_in_dbt_model, gets no
\* output file and no converted_files entry; once the loop is past it, it has
\* a Failure entry and was reported, and the loop goes on to the end.
C5_InvalidFileSkipped ==
    source_type = "SQL File" =>
        \A i \in DOMAIN files_data :
            LET f == files_data[i]
            IN  ~ValidateSql(f.stmts).ok =>
                    /\ ~CalledFor("convert_oracle_to_snowflake", f.name)
                    /\ ~CalledFor("wrap_sql_in_dbt_model", f.name)
                    /\ ~WrittenFor(f.name)
                    /\ f.name \notin converted_files
                    /\ (idx = i => bpc = "for")
                    /\ (idx > i =>
                          /\ CalledFor("validate_sql", f.name)
                          /\ migration_summary[f.name] =
                                Failure(ValidateSql(f.stmts).message)
                          /\ f.name \in reported)
                    /\ (bpc = "done" => idx = Len(files_data) + 1)

\* C5 witness: a batch of a DDL file followed by a SELECT file has been run
\* to the end; only the second was translated and written.
C5_Witness ==
    /\ source_type = "SQL File"
    /\ bpc = "done"
    /\ Len(files_data) = 2
    /\ files_data[1].stmts = <<"SELECT", "CREATE">>
    /\ files_data[2].stmts = <<"SELECT">>
    /\ migration_summary[files_data[1].name].status = "Failure"
    /\ ~CalledFor("convert_oracle_to_snowflake", files_data[1].name)
    /\ CalledFor("convert_oracle_to_snowflake", files_data[2].name)
    /\ Len(written) = 1
    /\ written[1].name = files_data[2].name

--------------------------------------------------------------------------
(* Input texts: several occurrences of rule patterns in one text, side   *)
(* by side, and NVL calls inside the argument list of another NVL call.  *)

MaxRepeat == 2

\* An occurrence of a rule's pattern and the text the rule puts in its place.
RepeatItems ==
    { [src |-> CallText(NVL, <<<<"x">>, <<"y">>>>, COMMA),
       out |-> CallText(COALESCE, <<<<"x">>, <<"y">>>>, COMMA_SP)],
      [src |-> CallText(LowerText(NVL) \o SP, <<<<"a">>, <<"'","A","'">>>>, COMMA_SP),
       out |-> CallText(COALESCE, <<<<"a">>, <<"'","A","'">>>>, COMMA_SP)],
      [src |-> SYSDATE, out |-> CURRENT_TIMESTAMP],
      [src |-> CallText(TO_NUMBER, <<<<"x">>>>, COMMA),
       out |-> CallText(TRY_TO_NUMBER, <<<<"x">>>>, COMMA)],
      [src |-> <<"a">> \o MARKER, out |-> <<"a">>],
      [src |-> ROWNUM \o LE \o <<"5">>, out |-> LIMIT \o SP \o <<"5">>] }

RepeatSeparators == { SP, COMMA_SP }

RepeatLists == UNION { [1..k -> RepeatItems] : k \in 1..MaxRepeat }

\* The occurrences of items written side by side, and what they become.
RepeatSrc(items, sep) == Join([j \in DOMAIN items |-> items[j].src], sep)

RepeatOut(items, sep) == Join([j \in DOMAIN items |-> items[j].out], sep)

SideBySideInputs == { RepeatSrc(items, sep) : items \in RepeatLists, sep \in RepeatSeparators }

\* NVL(NVL(x,y),z), NVL(x,NVL(y,z)) and the same with blanks after the commas.
NestedNvlInputs ==
    { CallText(NVL, <<CallText(NVL, <<<<"x">>, <<"y">>>>, sep), <<"z">>>>, sep) :
        sep \in Separators }
    \cup { CallText(NVL, <<<<"x">>, CallText(NVL, <<<<"y">>, <<"z">>>>, sep)>>, sep) :
        sep \in Separators }

RepeatInputs == SideBySideInputs \cup NestedNvlInputs

InitRepeat == InitConv(RepeatInputs)

SpecRepeat == InitRepeat /\ [][NextConv]_vars

\* C11 as stated: however the NVL calls of the input lie, side by side or one
\* inside another's argument, the NVL rule leaves no NVL call behind.
C11_EveryNvlRewritten == JustRan("nvl") => ~ContainsCI(sql_text, NVL)

\* The number of places in t where kw is written, in any letter case.
CountCI(t, kw) == Cardinality({ i \in 1..Len(t) : KwAt(t, i, kw) })

\* C11 amended: for occurrences written side by side (no occurrence inside
\* the text of another), one pass of the NVL rule rewrites every NVL call,
\* and the whole translation puts each occurrence's replacement in its place.
C11_SideBySideAllRewritten ==
    \A items \in RepeatLists, sep \in RepeatSeparators :
        src_text = RepeatSrc(items, sep) =>
            /\ JustRan("nvl") =>
                  /\ ~ContainsCI(sql_text, NVL)
                  /\ CountCI(sql_text, COALESCE) = CountCI(src_text, NVL)
            /\ FirstCallDone => sql_text = RepeatOut(items, sep)

\* C11 witness: "NVL(x,y), nvl (a, 'A')" has become
\* "COALESCE(x, y), COALESCE(a, 'A')".
C11_Witness ==
    /\ FirstCallDone
    /\ src_text = CallText(NVL, <<<<"x">>, <<"y">>>>, COMMA) \o COMMA_SP
                    \o CallText(LowerText(NVL) \o SP, <<<<"a">>, <<"'","A","'">>>>, COMMA_SP)
    /\ sql_text = CallText(COALESCE, <<<<"x">>, <<"y">>>>, COMMA_SP) \o COMMA_SP
                    \o CallText(COALESCE, <<<<"a">>, <<"'","A","'">>>>, COMMA_SP)

--------------------------------------------------------------------------
(* The translators of the repository called on the same text: each call  *)
(* is one step, from the text passed in to the text returned.            *)

VariantInputs ==
    SimpleCallInputs \cup NestedInputs \cup RownumInputs \cup SingleTokenInputs

InitVariants ==
    /\ ConvIdle
    /\ AppIdle
    /\ BatchIdle
    /\ called = "none"
    /\ call_args \in VariantInputs
    /\ returned = <<>>

\* What a call of a translator leaves alone.
CallFrame == UNCHANGED <<call_args, convVars, batchVars, appVars>>

\* core_logic_v4.convert_oracle_to_snowflake(call_args)
CallCoreLogicV4 ==
    /\ called = "none"
    /\ called' = "core_logic_v4"
    /\ returned' = Convert(call_args)
    /\ CallFrame

\* app_v20.convert_oracle_to_snowflake(call_args)
CallAppV20 ==
    /\ called = "none"
    /\ called' = "app_v20"
    /\ returned' = ConvertAppV20(call_args)
    /\ CallFrame

\* app7.convert_oracle_to_snowflake(call_args), the first definition
CallApp7 ==
    /\ called = "none"
    /\ called' = "app7"
    /\ returned' = ConvertApp7(call_args)
    /\ CallFrame

NextVariants ==
    \/ CallCoreLogicV4
    \/ CallAppV20
    \/ CallApp7

SpecVariants == InitVariants /\ [][NextVariants]_vars

\* C12 as stated: a SUBSTR call with two or three arguments comes out as
\* SUBSTRING with the same arguments, in the same order and number, from
\* the two-regex form of core_logic_v4 and from the single-regex form of
\* app_v20.
C12_SubstrKeepsArguments ==
    called \in {"core_logic_v4", "app_v20"} =>
        \A h \in HeadsOf(SUBSTR), a \in CallArgLists(3), sep \in Separators :
            (Len(a) >= 2 /\ call_args = CallText(h, a, sep))
                => returned = CallText(SUBSTRING, a, COMMA_SP)

\* The forms a cast of the text a to the type of kw's result may take.
CastForms(kw, a) ==
    LET types == IF kw = TO_DATE
                 THEN { <<"D","A","T","E">> }
                 ELSE { <<"T","E","X","T">>, <<"V","A","R","C","H","A","R">>,
                        <<"S","T","R","I","N","G">> }
    IN  { a \o <<":", ":">> \o ty : ty \in types }
            \cup { CAST \o LPAR \o a \o <<" ","A","S"," ">> \o ty \o RPAR : ty \in types }

\* C13 as stated: core_logic_v4 and the first translator of app7.py turn a
\* one-argument TO_DATE / TO_CHAR call into a cast of its argument, and a
\* two-argument call into TO_DATE(a, b), resp. TO_VARCHAR(a, b).
C13_ArgumentCountDecides ==
    called \in {"core_logic_v4", "app7"} =>
        \A kw \in {TO_DATE, TO_CHAR}, a \in CallArgLists(2), sep \in Separators :
            \A h \in HeadsOf(kw) :
                call_args = CallText(h, a, sep) =>
                    IF Len(a) = 1
                    THEN returned \in CastForms(kw, a[1])
                    ELSE returned = CallText(IF kw = TO_DATE THEN TO_DATE ELSE TO_VARCHAR,
                                             a, COMMA_SP)

\* C14: wherever the input holds ROWNUM <= n (either letter case, with or
\* without blanks around <=, n of one or two digits), alone or inside a
\* WHERE clause, the output holds LIMIT n in its place and the rest of the
\* text as it was.
C14_RownumToLimit ==
    FirstCallDone =>
        \A c \in RownumContexts \cup { << <<>>, <<>> >> },
           h \in {ROWNUM, LowerText(ROWNUM)}, w1 \in {<<>>, SP}, w2 \in {<<>>, SP},
           n \in {<<"5">>, <<"1","0">>} :
            src_text = c[1] \o h \o w1 \o LE \o w2 \o n \o c[2]
                => sql_text = c[1] \o LIMIT \o SP \o n \o c[2]

\* C14 witness: "WHERE x= 1 AND rownum<= 10 ORDER BY x" has become
\* "WHERE x= 1 AND LIMIT 10 ORDER BY x".
C14_Witness ==
    /\ FirstCallDone
    /\ src_text = <<"W","H","E","R","E"," ","x","="," ","1"," ","A","N","D"," ">>
                    \o LowerText(ROWNUM) \o LE \o SP \o <<"1","0">>
                    \o <<" ","O","R","D","E","R"," ","B","Y"," ","x">>
    /\ sql_text = <<"W","H","E","R","E"," ","x","="," ","1"," ","A","N","D"," ">>
                    \o LIMIT \o SP \o <<"1","0">>
                    \o <<" ","O","R","D","E","R"," ","B","Y"," ","x">>

\* C15: a DECODE call whose argument list splits at its commas into fewer
\* than 3 arguments (an empty list counts as one empty argument) is left by
\* the DECODE rule exactly as it was written, and so is the text around it.
C15_ShortDecodeUntouched ==
    JustRan("decode") =>
        /\ \A h \in DecodeHeads, sep \in Separators, args \in DecodeArgLists(2) :
              prev_text = CallText(h, args, sep) => sql_text = prev_text
        /\ prev_text \in ShortDecodeInputs => sql_text = prev_text

\* C15 witness: the DECODE rule has run on "decode (x, 1)" and left it as it was.
C15_Witness ==
    /\ JustRan("decode")
    /\ prev_text = CallText(<<"d","e","c","o","d","e"," ">>, <<<<"x">>, <<"1">>>>, COMMA_SP)
    /\ sql_text = prev_text

--------------------------------------------------------------------------
(* wrap_sql_in_dbt_model: the single-template wrapper of core_logic_v4   *)
(* and the three-way wrappers of app1_updated_v3 and app_new_1.          *)

NL == <<"\n">>
VIEW == <<"v","i","e","w">>
TABLE == <<"t","a","b","l","e">>
INCREMENTAL == <<"i","n","c","r","e","m","e","n","t","a","l">>
ID == <<"i","d">>

\* {{ config(materialized='
ConfigOpen ==
    <<"{","{"," ","c","o","n","f","i","g","(","m","a","t","e","r","i","a",
      "l","i","z","e","d","=","'">>

\* ') }}
ConfigClose == <<"'",")"," ","}","}">>

\* ', unique_key='
UniqueKeyOpen == <<"'",","," ","u","n","i","q","u","e","_","k","e","y","=","'">>

\* ', tags=['oracle_migration']) }}
TagsClose ==
    <<"'",","," ","t","a","g","s","=","[","'","o","r","a","c","l","e","_",
      "m","i","g","r","a","t","i","o","n","'","]",")"," ","}","}">>

\* {% if is_incremental() %}
IfIncremental ==
    <<"{","%"," ","i","f"," ","i","s","_","i","n","c","r","e","m","e","n",
      "t","a","l","(",")"," ","%","}">>

\* {% endif %}
EndIf == <<"{","%"," ","e","n","d","i","f"," ","%","}">>

\* The two comment lines of app1_updated_v3's placeholder block; the
\* f-string turns {{ this }} into { this }.
App1Comment ==
    <<"-","-"," ","E","x","a","m","p","l","e",":"," ","O","n","l","y"," ",
      "i","n","c","l","u","d","e"," ","n","e","w"," ","r","e","c","o","r",
      "d","s","\n","-","-"," ","W","H","E","R","E"," ","u","p","d","a","t",
      "e","d","_","a","t"," ",">"," ","(","S","E","L","E","C","T"," ","M",
      "A","X","(","u","p","d","a","t","e","d","_","a","t",")"," ","F","R",
      "O","M"," ","{"," ","t","h","i","s"," ","}",")","\n">>

\* The comment line of app_new_1's placeholder block.
AppNew1Comment ==
    <<"-","-"," ","A","d","d"," ","i","n","c","r","e","m","e","n","t","a",
      "l"," ","f","i","l","t","e","r"," ","l","o","g","i","c"," ","h","e",
      "r","e","\n">>

\* Mutant of WrapCoreLogicV4: one newline between directive and SQL.
WrapCoreOneNewline(sql, model_type) ==
    ConfigOpen \o model_type \o ConfigClose \o NL \o sql

\* core_logic_v4.wrap_sql_in_dbt_model(sql_text, model_type)
WrapCoreLogicV4(sql, model_type) ==
    ConfigOpen \o model_type \o ConfigClose \o NL \o NL \o sql

\* The if / elif chain shared by app1_updated_v3 and app_new_1; comment is
\* the text between the {% if %} line and {% endif %}.
WrapThreeWay(sql, model_type, unique_key, comment) ==
    IF model_type = VIEW THEN ConfigOpen \o VIEW \o ConfigClose \o NL \o NL \o sql
    ELSE IF model_type = TABLE THEN ConfigOpen \o TABLE \o ConfigClose \o NL \o NL \o sql
    ELSE IF model_type = INCREMENTAL
    THEN ConfigOpen \o INCREMENTAL \o UniqueKeyOpen \o unique_key \o TagsClose \o NL
         \o sql \o NL \o NL \o IfIncremental \o NL \o comment \o EndIf
    ELSE sql

\* Mutant of WrapApp1UpdatedV3: the directive always names the key id.
WrapApp1FixedKey(sql, model_type, unique_key) ==
    WrapThreeWay(sql, model_type, ID, App1Comment)

\* app1_updated_v3.wrap_sql_in_dbt_model(sql_text, model_type, unique_key)
WrapApp1UpdatedV3(sql, model_type, unique_key) ==
    WrapThreeWay(sql, model_type, unique_key, App1Comment)

\* app_new_1.wrap_sql_in_dbt_model(sql_text, model_type, unique_key)
WrapAppNew1(sql, model_type, unique_key) ==
    WrapThreeWay(sql, model_type, unique_key, AppNew1Comment)

\* SQL texts handed to the wrapper: empty, one line, two lines.
WrapSqlTexts ==
    { <<>>, <<"S","E","L","E","C","T"," ","1">>,
      <<"S","E","L","E","C","T"," ","x","\n","F","R","O","M"," ","t">> }

\* Materialization kinds: the three the wrappers know, and others.
ModelTypes ==
    { VIEW, TABLE, INCREMENTAL, <<"e","p","h","e","m","e","r","a","l">>,
      <<"V","I","E","W">>, <<>> }

\* The model types the Migration Settings page of app1_updated_v3 offers.
App1ModelTypes == { VIEW, TABLE, INCREMENTAL }

\* Unique keys: the default, an emptied input, other column names.
UniqueKeys == { ID, <<>>, <<"k">>, <<"o","r","d","e","r","_","i","d">> }

InitWrap ==
    /\ ConvIdle
    /\ AppIdle
    /\ BatchIdle
    /\ called = "none"
    /\ call_args \in [sql_text : WrapSqlTexts, model_type : ModelTypes,
                      unique_key : UniqueKeys]
    /\ returned = <<>>

\* core_logic_v4.wrap_sql_in_dbt_model(sql_text, model_type)
CallWrapCoreLogicV4 ==
    /\ called = "none"
    /\ called' = "core_logic_v4.wrap"
    /\ returned' = WrapCoreLogicV4(call_args.sql_text, call_args.model_type)
    /\ CallFrame

\* app1_updated_v3.wrap_sql_in_dbt_model(sql_text, model_type, unique_key)
CallWrapApp1UpdatedV3 ==
    /\ called = "none"
    /\ called' = "app1_updated_v3.wrap"
    /\ returned' = WrapApp1UpdatedV3(call_args.sql_text, call_args.model_type,
                                     call_args.unique_key)
    /\ CallFrame

\* app1_updated_v3.wrap_sql_in_dbt_model(sql_text, model_type): the
\* parameter unique_key takes its default "id".
CallWrapApp1UpdatedV3NoKey ==
    /\ called = "none"
    /\ called' = "app1_updated_v3.wrap_no_key"
    /\ returned' = WrapApp1UpdatedV3(call_args.sql_text, call_args.model_type, ID)
    /\ CallFrame

\* app_new_1.wrap_sql_in_dbt_model(sql_text, model_type, unique_key)
CallWrapAppNew1 ==
    /\ called = "none"
    /\ called' = "app_new_1.wrap"
    /\ returned' = WrapAppNew1(call_args.sql_text, call_args.model_type,
                               call_args.unique_key)
    /\ CallFrame

\* The Migration Settings page of app1_updated_v3: unique_key is "" unless
\* the model type is incremental, and then it is the content of the text
\* input (pre-filled with "id"); the wrapper is called with it.
App1PageWraps ==
    /\ called = "none"
    /\ call_args.model_type \in App1ModelTypes
    /\ called' = "app1_updated_v3.page"
    /\ LET unique_key == IF call_args.model_type = INCREMENTAL
                         THEN call_args.unique_key ELSE <<>>
       IN  returned' = WrapApp1UpdatedV3(call_args.sql_text, call_args.model_type,
                                         unique_key)
    /\ CallFrame

NextWrap ==
    \/ CallWrapCoreLogicV4
    \/ CallWrapApp1UpdatedV3
    \/ CallWrapApp1UpdatedV3NoKey
    \/ CallWrapAppNew1
    \/ App1PageWraps

SpecWrap == InitWrap /\ [][NextWrap]_vars

\* A wrapper has been called.
WrapCalls ==
    { "core_logic_v4.wrap", "app1_updated_v3.wrap", "app1_updated_v3.wrap_no_key",
      "app_new_1.wrap", "app1_updated_v3.page" }

StartsWith(t, p) == Len(t) >= Len(p) /\ SubSeq(t, 1, Len(p)) = p

EndsWith(t, p) == Len(t) >= Len(p) /\ SubSeq(t, Len(t) - Len(p) + 1, Len(t)) = p

\* C16: for kind view or table every wrapper returns exactly the directive
\* {{ config(materialized='<kind>') }}, two newlines, and the SQL text.
C16_ViewTableExactText ==
    (called \in WrapCalls /\ call_args.model_type \in {VIEW, TABLE}) =>
        returned =
            (IF call_args.model_type = VIEW
             THEN <<"{","{"," ","c","o","n","f","i","g","(","m","a","t","e","r",
                   "i","a","l","i","z","e","d","=","'","v","i","e","w","'",")",
                   " ","}","}">>
             ELSE <<"{","{"," ","c","o","n","f","i","g","(","m","a","t","e","r",
                   "i","a","l","i","z","e","d","=","'","t","a","b","l","e","'",
                   ")"," ","}","}">>)
            \o <<"\n", "\n">> \o call_args.sql_text

\* C16 witness: core_logic_v4's wrapper was called with "SELECT 1" and view.
C16_Witness ==
    /\ called = "core_logic_v4.wrap"
    /\ call_args.model_type = VIEW
    /\ call_args.sql_text = <<"S","E","L","E","C","T"," ","1">>
    /\ returned =
          <<"{","{"," ","c","o","n","f","i","g","(","m","a","t","e","r",
            "i","a","l","i","z","e","d","=","'","v","i","e","w","'",")",
            " ","}","}","\n","\n","S","E","L","E","C","T"," ","1">>

\* The unique key the wrapper was called with.
KeyPassed ==
    IF called = "app1_updated_v3.wrap_no_key" THEN <<"i", "d">> ELSE call_args.unique_key

\* C17: for kind incremental the three-way wrappers return the directive
\* with materialized='incremental', unique_key='<k>' for the key k passed
\* and tags=['oracle_migration'], then the SQL text, then a block that opens
\* with {% if is_incremental() %}, holds only lines starting with --, and
\* closes the text with {% endif %}.
C17_IncrementalShape ==
    (called \in WrapCalls \ {"core_logic_v4.wrap"} /\ call_args.model_type = INCREMENTAL) =>
        LET head == <<"{","{"," ","c","o","n","f","i","g","(","m","a","t","e","r",
                      "i","a","l","i","z","e","d","=","'","i","n","c","r","e","m",
                      "e","n","t","a","l","'",","," ","u","n","i","q","u","e","_",
                      "k","e","y","=","'">>
                    \o KeyPassed
                    \o <<"'",","," ","t","a","g","s","=","[","'","o","r","a","c","l",
                         "e","_","m","i","g","r","a","t","i","o","n","'","]",")"," ",
                         "}","}">>
            upto == head \o <<"\n">> \o call_args.sql_text \o <<"\n", "\n">>
                    \o <<"{","%"," ","i","f"," ","i","s","_","i","n","c","r","e","m",
                         "e","n","t","a","l","(",")"," ","%","}">> \o <<"\n">>
            last == <<"{","%"," ","e","n","d","i","f"," ","%","}">>
            body == SubSeq(returned, Len(upto) + 1, Len(returned) - Len(last))
            lines == Split(body, "\n")
        IN  /\ StartsWith(returned, upto)
            /\ EndsWith(returned, last)
            /\ Len(returned) >= Len(upto) + Len(last)
            /\ Len(lines) >= 2
            /\ lines[Len(lines)] = <<>>
            /\ \A j \in 1..(Len(lines) - 1) : StartsWith(lines[j], <<"-", "-">>)

\* C17 witness: app_new_1's wrapper was called with "SELECT 1", incremental
\* and the key order_id.
C17_Witness ==
    /\ called = "app_new_1.wrap"
    /\ call_args.model_type = INCREMENTAL
    /\ call_args.unique_key = <<"o","r","d","e","r","_","i","d">>
    /\ call_args.sql_text = <<"S","E","L","E","C","T"," ","1">>
    /\ returned =
          <<"{","{"," ","c","o","n","f","i","g","(","m","a","t","e","r",
            "i","a","l","i","z","e","d","=","'","i","n","c","r","e","m",
            "e","n","t","a","l","'",","," ","u","n","i","q","u","e","_",
            "k","e","y","=","'","o","r","d","e","r","_","i","d","'",",",
            " ","t","a","g","s","=","[","'","o","r","a","c","l","e","_",
            "m","i","g","r","a","t","i","o","n","'","]",")"," ","}","}",
            "\n","S","E","L","E","C","T"," ","1","\n","\n","{","%"," ",
            "i","f"," ","i","s","_","i","n","c","r","e","m","e","n","t",
            "a","l","(",")"," ","%","}","\n","-","-"," ","A","d","d",
            " ","i","n","c","r","e","m","e","n","t","a","l"," ","f","i",
            "l","t","e","r"," ","l","o","g","i","c"," ","h","e","r","e",
            "\n","{","%"," ","e","n","d","i","f"," ","%","}">>

\* C18 as stated: for a kind that is not view, table or incremental, the
\* wrappers of app1_updated_v3, app_new_1 and core_logic_v4 return the SQL
\* text unchanged.
C18_OtherKindUnchanged ==
    (/\ called \in {"core_logic_v4.wrap", "app1_updated_v3.wrap", "app_new_1.wrap"}
     /\ call_args.model_type \notin {VIEW, TABLE, INCREMENTAL})
        => returned = call_args.sql_text

\* C19 as stated: when the wrapper is called without a unique key, or the
\* unique-key input of app1_updated_v3's page is empty, the directive of an
\* incremental model carries unique_key='id'.
C19_UnsetKeyIsId ==
    (/\ call_args.model_type = INCREMENTAL
     /\ \/ called = "app1_updated_v3.wrap_no_key"
        \/ called = "app1_updated_v3.page" /\ call_args.unique_key = <<>>)
        => Contains(returned, <<"u","n","i","q","u","e","_","k","e","y","=","'","i","d","'">>)

--------------------------------------------------------------------------
(* validate_sql: core_logic_v4 and the parse-only variant of             *)
(* app1_updated_v3.  A text is given by what sql_text.strip() and        *)
(* sqlparse.parse(sql_text) make of it: blank or not, and the types of   *)
(* its statements (none for the empty and the whitespace-only text), or  *)
(* that the parse raises.                                                *)

MaxStatements == 2

\* Statement.get_type() values: DML, DDL, and UNKNOWN for anything else.
StatementTypes == { "SELECT", "INSERT", "UPDATE", "DELETE", "CREATE", "UNKNOWN" }

ValidateTexts ==
    { [kind |-> k, stmts |-> <<>>] : k \in {"empty", "whitespace", "raises"} }
        \cup { [kind |-> "text", stmts |-> st] :
                 st \in UNION { [1..n -> StatementTypes] : n \in 1..MaxStatements } }

\* core_logic_v4.validate_sql(sql_text): the strip() test, then the parse
\* and the statement types.
ValidateSqlCoreLogicV4(text) ==
    IF text.kind \in {"empty", "whitespace"}
    THEN [ok |-> FALSE, message |-> <<"Empty or invalid SQL.">>]
    ELSE IF text.kind = "raises"
    THEN [ok |-> FALSE, message |-> <<"SQL syntax error: ", "e">>]
    ELSE ValidateSql(text.stmts)

\* app1_updated_v3.validate_sql(sql_text): valid when the parse gives a statement.
ValidateSqlApp1UpdatedV3(text) ==
    IF text.kind = "raises"
    THEN [ok |-> FALSE, message |-> <<"e">>]
    ELSE IF text.stmts = <<>>
    THEN [ok |-> FALSE, message |-> <<"Empty or invalid SQL.">>]
    ELSE [ok |-> TRUE, message |-> <<"SQL syntax looks valid.">>]

InitValidate ==
    /\ ConvIdle
    /\ AppIdle
    /\ BatchIdle
    /\ called = "none"
    /\ call_args \in ValidateTexts
    /\ returned = <<>>

CallValidateCoreLogicV4 ==
    /\ called = "none"
    /\ called' = "core_logic_v4.validate_sql"
    /\ returned' = ValidateSqlCoreLogicV4(call_args)
    /\ CallFrame

CallValidateApp1UpdatedV3 ==
    /\ called = "none"
    /\ called' = "app1_updated_v3.validate_sql"
    /\ returned' = ValidateSqlApp1UpdatedV3(call_args)
    /\ CallFrame

NextValidate ==
    \/ CallValidateCoreLogicV4
    \/ CallValidateApp1UpdatedV3

SpecValidate == InitValidate /\ [][NextValidate]_vars

\* C20 as stated: for the empty string, for whitespace-only text and for a
\* text whose only statement is a CREATE, validate_sql of core_logic_v4 and
\* of app1_updated_v3 returns False with a non-empty message.
C20_EmptyAndDdlRejected ==
    (/\ called \in {"core_logic_v4.validate_sql", "app1_updated_v3.validate_sql"}
     /\ \/ call_args.kind \in {"empty", "whitespace"}
        \/ call_args.stmts = <<"CREATE">>)
        => (~returned.ok /\ returned.message # <<>>)

\* C21: core_logic_v4.validate_sql returns True exactly when the text is not
\* blank, parses into at least one statement and every statement's type is
\* allowed; with a disallowed statement anywhere the message names the first
\* disallowed type; a parse that raises is answered (False, message).
C21_ValidIffAllAllowed ==
    called = "core_logic_v4.validate_sql" =>
        LET st  == call_args.stmts
            bad == { i \in DOMAIN st : st[i] \notin {"SELECT", "INSERT", "UPDATE",
                                                     "DELETE", "WITH", "CTE"} }
        IN  /\ returned.ok <=> (call_args.kind = "text" /\ st # <<>> /\ bad = {})
            /\ bad # {} => /\ Len(returned.message) = 3
                           /\ \E i \in bad : /\ \A j \in bad : i <= j
                                             /\ returned.message[2] = st[i]
            /\ call_args.kind = "raises" => ~returned.ok /\ returned.message # <<>>

\* C21 witness: an allowed statement followed by two different disallowed
\* ones is rejected and the message names the first disallowed type.
C21_Witness ==
    /\ called = "core_logic_v4.validate_sql"
    /\ Len(call_args.stmts) >= 2
    /\ call_args.stmts[Len(call_args.stmts) - 1] = "CREATE"
    /\ call_args.stmts[Len(call_args.stmts)] = "UNKNOWN"
    /\ ~returned.ok
    /\ returned.message[2] = "CREATE"

--------------------------------------------------------------------------
(* core_logic_v4.run_crew_migration: the agents' final output is turned  *)
(* into SQL, translated and wrapped; every failure is answered with      *)
(* (None, "Failure: ...").                                               *)

MaxCrewTokens == 3

\* The fence of a Markdown code block, three backticks.  A TLA+ string cannot
\* hold a backtick: it is written "^" here, a character that like the backtick
\* is neither white space nor a word character and occurs nowhere else.
FENCE == <<"^", "^", "^">>
FENCE_SQL == FENCE \o <<"s", "q", "l">>
FINAL_ANSWER == <<"F","i","n","a","l"," ","A","n","s","w","e","r",":">>

\* re.search(r"```sql\s*(.*?)\s*```", final_output_str, re.DOTALL): the text
\* of group 1, found is FALSE when the pattern does not match.  The match
\* starts at the leftmost "```sql" and the lazy group ends at the first
\* position from which blanks and the closing fence follow.
SqlBlock(t) ==
    LET tags == { i \in 1..Len(t) : LitAt(t, i, FENCE_SQL) }
    IN  IF tags = {} THEN [found |-> FALSE, group |-> <<>>]
        ELSE LET i == CHOOSE a \in tags : \A b \in tags : a <= b
                 q == SkipSpace(t, i + Len(FENCE_SQL))
                 ends == { e \in q..(Len(t) + 1) : LitAt(t, SkipSpace(t, e), FENCE) }
             IN  IF ends = {} THEN [found |-> FALSE, group |-> <<>>]
                 ELSE [found |-> TRUE,
                       group |-> SubSeq(t, q, (CHOOSE a \in ends : \A b \in ends : a <= b) - 1)]

\* final_output_str.split("Final Answer:")[-1]
AfterFinalAnswer(t) ==
    LET hits == { i \in 1..Len(t) : LitAt(t, i, FINAL_ANSWER) }
    IN  IF hits = {} THEN t
        ELSE SubSeq(t, (CHOOSE a \in hits : \A b \in hits : b <= a) + Len(FINAL_ANSWER), Len(t))

\* Mutant of CleanSql: the fallback is used even when a ```sql block is there.
CleanSqlFallbackOnly(t) == Strip(AfterFinalAnswer(t))

\* clean_sql: group 1 of the ```sql block, stripped, or else what follows the
\* last "Final Answer:", stripped.
CleanSql(t) ==
    LET m == SqlBlock(t)
    IN  IF m.found THEN Strip(m.group) ELSE Strip(AfterFinalAnswer(t))

NoneResult == [none |-> TRUE, text |-> <<>>]

\* What the agents' final output can look like.
CrewOutputTokens ==
    { FENCE_SQL, FENCE, NL, SP, FINAL_ANSWER, <<"N","V","L","(","a",",","b",")">> }

CrewOutputs == { <<>> } \cup TokenTexts(CrewOutputTokens, MaxCrewTokens)

InitCrew ==
    /\ ConvIdle
    /\ AppIdle
    /\ BatchIdle
    /\ called = "none"
    /\ call_args \in [final_output : CrewOutputs, model_type : {VIEW, TABLE}]
    /\ returned = <<>>

\* run_crew_migration where an agent, a task, the crew or kickoff raises:
\* the except branch returns (None, f"Failure: {e}").
CallRunCrewMigrationRaises ==
    /\ called = "none"
    /\ called' = "core_logic_v4.run_crew_migration.raises"
    /\ returned' = [raised |-> FALSE, wrapped_sql |-> NoneResult,
                    status |-> <<"Failure: ", "e">>]
    /\ CallFrame

\* run_crew_migration where kickoff returns call_args.final_output: without
\* SQL the ValueError ends in the except branch, otherwise the SQL is
\* translated and wrapped.
CallRunCrewMigration ==
    /\ called = "none"
    /\ called' = "core_logic_v4.run_crew_migration"
    /\ LET clean_sql == CleanSql(call_args.final_output)
       IN  returned' =
             IF clean_sql = <<>>
             THEN [raised |-> FALSE, wrapped_sql |-> NoneResult,
                   status |-> <<"Failure: ",
                                "No SQL code was generated by the CrewAI agents.">>]
             ELSE [raised |-> FALSE,
                   wrapped_sql |-> [none |-> FALSE,
                                    text |-> WrapCoreLogicV4(Convert(clean_sql),
                                                             call_args.model_type)],
                   status |-> <<"Success">>]
    /\ CallFrame

NextCrew ==
    \/ CallRunCrewMigrationRaises
    \/ CallRunCrewMigration

SpecCrew == InitCrew /\ [][NextCrew]_vars

CrewCalls == { "core_logic_v4.run_crew_migration", "core_logic_v4.run_crew_migration.raises" }

\* The output holds a ```sql tag with a closing fence behind it.
HasSqlBlock(out) ==
    \E i \in 1..Len(out) :
        /\ LitAt(out, i, FENCE_SQL)
        /\ \E j \in (i + Len(FENCE_SQL))..Len(out) : LitAt(out, j, FENCE)

\* The SQL of the output starts at a: in a ```sql block (block = TRUE), behind
\* the first tag and the blanks after it; without a block, behind the last
\* "Final Answer:" (at the start of the output when there is none) and the
\* blanks after it.
SqlStartsAt(out, block, a) ==
    /\ ~IsSpace(out[a])
    /\ IF block
       THEN \E i \in 1..a :
              /\ LitAt(out, i, FENCE_SQL)
              /\ \A k \in 1..(i - 1) : ~LitAt(out, k, FENCE_SQL)
              /\ i + Len(FENCE_SQL) <= a
              /\ \A k \in (i + Len(FENCE_SQL))..(a - 1) : IsSpace(out[k])
       ELSE \E s \in 1..a :
              /\ s = 1 \/ (s > Len(FINAL_ANSWER)
                            /\ LitAt(out, s - Len(FINAL_ANSWER), FINAL_ANSWER))
              /\ \A h \in s..Len(out) : ~LitAt(out, h, FINAL_ANSWER)
              /\ \A k \in s..(a - 1) : IsSpace(out[k])

\* The SQL that starts at a ends at b: in a block, before the blanks and the
\* first closing fence behind a; without a block, before the blanks that end
\* the output.
SqlEndsAt(out, block, a, b) ==
    /\ a <= b
    /\ ~IsSpace(out[b])
    /\ IF block
       THEN /\ LitAt(out, SkipSpace(out, b + 1), FENCE)
            /\ \A e \in a..b : ~LitAt(out, SkipSpace(out, e), FENCE)
       ELSE \A k \in (b + 1)..Len(out) : IsSpace(out[k])

\* C22: run_crew_migration never raises; it returns (wrapped_sql, "Success")
\* with wrapped_sql the wrapper applied to the translator applied to the SQL
\* of the agents' output, or (None, "Failure: ...") when the agents raise or
\* the output holds no SQL; the first component is None exactly when the
\* status is not "Success".
C22_CrewResult ==
    called \in CrewCalls =>
        LET out    == call_args.final_output
            block  == HasSqlBlock(out)
            starts == { a \in 1..Len(out) : SqlStartsAt(out, block, a) }
            cands  == { ab \in starts \X (1..Len(out)) : SqlEndsAt(out, block, ab[1], ab[2]) }
        IN  /\ ~returned.raised
            /\ returned.wrapped_sql.none <=> returned.status # <<"Success">>
            /\ returned.wrapped_sql.none => returned.status[1] = "Failure: "
            /\ called = "core_logic_v4.run_crew_migration.raises" => returned.wrapped_sql.none
            /\ called = "core_logic_v4.run_crew_migration" =>
                  /\ returned.wrapped_sql.none <=> cands = {}
                  /\ \A ab \in cands :
                        returned.wrapped_sql.text =
                            ConfigOpen \o call_args.model_type \o ConfigClose \o NL \o NL
                              \o Convert(SubSeq(out, ab[1], ab[2]))

\* C22 witness: a ```sql block around NVL(a,b) gives the wrapped
\* COALESCE(a, b): the SQL is taken from the block, not from the whole output.
C22_Witness ==
    /\ called = "core_logic_v4.run_crew_migration"
    /\ call_args.final_output =
          FENCE_SQL \o <<"N","V","L","(","a",",","b",")">> \o FENCE
    /\ call_args.model_type = VIEW
    /\ returned.status = <<"Success">>
    /\ returned.wrapped_sql.text =
          ConfigOpen \o VIEW \o ConfigClose \o NL \o NL
            \o <<"C","O","A","L","E","S","C","E","(","a",","," ","b",")">>

--------------------------------------------------------------------------
(* core_logic_v4.get_snowpark_session_and_llm and the guard at the top   *)
(* of streamlit_app_v4.migration_settings_tab.                           *)

MaxMissing == 1

\* The environment variables read into connection_parameters.
EnvVars ==
    { "SNOWFLAKE_USER", "SNOWFLAKE_PASSWORD", "SNOWFLAKE_ACCOUNT", "SNOWFLAKE_WAREHOUSE",
      "SNOWFLAKE_DATABASE", "SNOWFLAKE_SCHEMA", "SNOWFLAKE_ROLE" }

\* os.getenv gives None for a variable that is not set, "" for an empty one.
EnvValues == { "unset", "empty", "set" }

\* Environments with at most MaxMissing variables unset or empty.
Environments ==
    { env \in [EnvVars -> EnvValues] :
        Cardinality({ k \in EnvVars : env[k] # "set" }) <= MaxMissing }

\* missing_vars = [key for key, value in connection_parameters.items() if not value]
MissingVars(env) == { k \in EnvVars : env[k] \in {"unset", "empty"} }

\* What Session.builder...create() and SnowflakeCortexLLM(...) do when reached.
Outcomes == { "ok", "raises" }

\* get_snowpark_session_and_llm(): attempted tells whether
\* Session.builder.configs(...).create() was called.
GetSnowparkSessionAndLlm(env, create, llm) ==
    IF MissingVars(env) # {}
    THEN [session |-> "None", llm |-> "None", attempted |-> FALSE]
    ELSE IF create = "raises" \/ llm = "raises"
    THEN [session |-> "None", llm |-> "None", attempted |-> TRUE]
    ELSE [session |-> "Session", llm |-> "SnowflakeCortexLLM", attempted |-> TRUE]

MaxSessionFiles == 1

\* A short upload is enough to see whether the handler converts anything.
SessionUploads == UNION { [1..n -> UploadedFile] : n \in 0..MaxSessionFiles }

\* main() has not run yet: the environment, what the Snowflake calls would
\* do, and what the user is going to upload and select.
InitSession ==
    /\ ConvIdle
    /\ AppIdle
    /\ called = "none"
    /\ call_args \in { a \in [env : Environments, create : Outcomes, llm : Outcomes] :
                         MissingVars(a.env) # {} => a.create = "ok" /\ a.llm = "ok" }
    /\ returned = <<>>
    /\ uploaded_files \in SessionUploads
    /\ source_type \in SourceTypes
    /\ bpc = "not_rendered"
    /\ idx = 0
    /\ files_data = <<>>
    /\ converted_files = {}
    /\ migration_summary = <<>>
    /\ written = <<>>
    /\ calls = <<>>
    /\ reported = {}

\* main(): session, custom_llm = get_snowpark_session_and_llm()
CallGetSnowparkSessionAndLlm ==
    /\ called = "none"
    /\ called' = "core_logic_v4.get_snowpark_session_and_llm"
    /\ returned' = GetSnowparkSessionAndLlm(call_args.env, call_args.create, call_args.llm)
    /\ CallFrame

\* `if not session or not custom_llm`
NoConnection == returned.session = "None" \/ returned.llm = "None"

\* migration_settings_tab: the error and the return of lines 82-84.
RenderTabNoConnection ==
    /\ called = "core_logic_v4.get_snowpark_session_and_llm"
    /\ bpc = "not_rendered"
    /\ NoConnection
    /\ bpc' = "no_connection"
    /\ UNCHANGED <<uploaded_files, source_type, idx, files_data, converted_files,
                   migration_summary, written, calls, reported>>
    /\ UNCHANGED <<convVars, fnVars, appVars>>

\* Mutant of RenderTab: the tab is rendered whatever the connection.
RenderTabUnguarded ==
    /\ called = "core_logic_v4.get_snowpark_session_and_llm"
    /\ bpc = "not_rendered"
    /\ bpc' = "idle"
    /\ UNCHANGED <<uploaded_files, source_type, idx, files_data, converted_files,
                   migration_summary, written, calls, reported>>
    /\ UNCHANGED <<convVars, fnVars, appVars>>

\* migration_settings_tab with a connection: the widgets and the button are
\* rendered and the click handler can run.
RenderTab ==
    /\ called = "core_logic_v4.get_snowpark_session_and_llm"
    /\ bpc = "not_rendered"
    /\ ~NoConnection
    /\ bpc' = "idle"
    /\ UNCHANGED <<uploaded_files, source_type, idx, files_data, converted_files,
                   migration_summary, written, calls, reported>>
    /\ UNCHANGED <<convVars, fnVars, appVars>>

NextSession ==
    \/ CallGetSnowparkSessionAndLlm
    \/ RenderTabNoConnection
    \/ RenderTab
    \/ NextBatch

SpecSession == InitSession /\ [][NextSession]_vars

\* C23: get_snowpark_session_and_llm returns two values that are both None or
\* both not None; with one of the seven variables unset or empty both are
\* None and no session was attempted, and migration_settings_tab then calls
\* no core function for any file, writes nothing and keeps nothing.
C23_SessionAndLlmTogether ==
    called = "core_logic_v4.get_snowpark_session_and_llm" =>
        /\ (returned.session = "None") <=> (returned.llm = "None")
        /\ (\E k \in EnvVars : call_args.env[k] # "set") =>
              /\ returned.session = "None"
              /\ returned.llm = "None"
              /\ ~returned.attempted
              /\ calls = <<>>
              /\ written = <<>>
              /\ converted_files = {}
              /\ bpc \in {"not_rendered", "no_connection"}

\* C23 witness: SNOWFLAKE_ROLE is empty, a file is uploaded, and the tab has
\* returned after its error message.
C23_Witness ==
    /\ called = "core_logic_v4.get_snowpark_session_and_llm"
    /\ call_args.env["SNOWFLAKE_ROLE"] = "empty"
    /\ uploaded_files # <<>>
    /\ bpc = "no_connection"
    /\ ~returned.attempted

--------------------------------------------------------------------------
(* The DECODE rule of core_logic_v4 and of app7new on the same text.     *)

InitDecodeVariants ==
    /\ ConvIdle
    /\ AppIdle
    /\ BatchIdle
    /\ called = "none"
    /\ call_args \in DecodeInputs
    /\ returned = [done |-> {}, core_logic_v4 |-> <<>>, app7new |-> <<>>]

\* core_logic_v4.convert_oracle_to_snowflake(call_args)
CompareCallCoreLogicV4 ==
    /\ "core_logic_v4" \notin returned.done
    /\ called' = "decode_variants"
    /\ returned' = [returned EXCEPT !.done = @ \cup {"core_logic_v4"},
                                    !.core_logic_v4 = Convert(call_args)]
    /\ CallFrame

\* app7new.convert_oracle_to_snowflake(call_args)
CompareCallApp7New ==
    /\ "app7new" \notin returned.done
    /\ called' = "decode_variants"
    /\ returned' = [returned EXCEPT !.done = @ \cup {"app7new"},
                                    !.app7new = ConvertApp7New(call_args)]
    /\ CallFrame

NextDecodeVariants ==
    \/ CompareCallCoreLogicV4
    \/ CompareCallApp7New

SpecDecodeVariants == InitDecodeVariants /\ [][NextDecodeVariants]_vars

BothDecodeVariantsCalled == returned.done = {"core_logic_v4", "app7new"}

--------------------------------------------------------------------------
\* The words of a CASE expression that are not its keywords, in order.
CaseValues(t) ==
    SelectSeq(Words(t), LAMBDA w : w \notin {CASE_, WHEN_, THEN_, ELSE_, END_})

\* How often the text v stands in the sequence of texts s.
Occurrences(s, v) == Cardinality({ j \in 1..Len(s) : s[j] = v })

\* C25 as stated: for a DECODE call with n >= 3 comma-free arguments, every
\* argument stands in the generated CASE expression exactly as often as in
\* the call: none is dropped, none is used twice.
C25_EachArgumentOnce ==
    FirstCallDone =>
        \A h \in DecodeHeads, sep \in Separators, args \in DecodeArgLists(MaxDecodeArgs) :
            (Len(args) >= 3 /\ src_text = CallText(h, args, sep)) =>
                \A j \in 1..Len(args) :
                    Occurrences(CaseValues(sql_text), args[j]) = Occurrences(args, args[j])

--------------------------------------------------------------------------
(* app1_updated_v3.convert_oracle_to_snowflake with options omitted and  *)
(* app_new_1.convert_oracle_to_snowflake on the same text.               *)

\* Calls with blanks behind the opening parenthesis.
SpacedCallInputs ==
    { h \o <<"(", " ">> \o Join(args, COMMA_SP) \o RPAR :
        h \in { DECODE, TO_DATE, TO_CHAR },
        args \in { <<<<"x">>>>, <<<<"x">>, <<"'","A","'">>>>,
                   <<<<"x">>, <<"1">>, <<"'","A","'">>, <<"'","C","'">>>> } }

PairInputs == VariantInputs \cup SpacedCallInputs

InitPair ==
    /\ ConvIdle
    /\ AppIdle
    /\ BatchIdle
    /\ called = "none"
    /\ call_args \in PairInputs
    /\ returned = [done |-> {}, app1_updated_v3 |-> <<>>, app_new_1 |-> <<>>]

\* app1_updated_v3.convert_oracle_to_snowflake(call_args): options is None
PairCallApp1UpdatedV3 ==
    /\ "app1_updated_v3" \notin returned.done
    /\ called' = "translator_pair"
    /\ returned' = [returned EXCEPT !.done = @ \cup {"app1_updated_v3"},
                                    !.app1_updated_v3 = ConvertApp1UpdatedV3(call_args, <<>>)]
    /\ CallFrame

\* app_new_1.convert_oracle_to_snowflake(call_args)
PairCallAppNew1 ==
    /\ "app_new_1" \notin returned.done
    /\ called' = "translator_pair"
    /\ returned' = [returned EXCEPT !.done = @ \cup {"app_new_1"},
                                    !.app_new_1 = ConvertAppNew1(call_args)]
    /\ CallFrame

NextPair ==
    \/ PairCallApp1UpdatedV3
    \/ PairCallAppNew1

SpecPair == InitPair /\ [][NextPair]_vars

\* C26 as stated: with options omitted app1_updated_v3's translator returns,
\* for every text, what app_new_1's translator returns.
C26_SameAsOptionless ==
    returned.done = {"app1_updated_v3", "app_new_1"}
        => returned.app1_updated_v3 = returned.app_new_1

--------------------------------------------------------------------------
\* The names of the uploaded files.
UploadedNames == { uploaded_files[i].name : i \in DOMAIN uploaded_files }

\* C27: when the loop of streamlit_app_v4 has finished, migration_summary has
\* an entry for every file of the batch and for nothing else (one per file,
\* the summary being a dict), and a file is in converted_files, and was
\* written in this run, exactly when its entry is a Success entry; a file
\* whose write failed has a Failure entry.
C27_SummaryMatchesOutputs ==
    bpc = "done" =>
        /\ DOMAIN migration_summary = UploadedNames
        /\ \A n \in UploadedNames :
              /\ n \in converted_files <=> migration_summary[n].status = "Success"
              /\ n \in converted_files <=> \E k \in DOMAIN written : written[k].name = n
              /\ (n \in reported /\ n \notin converted_files)
                    => migration_summary[n].status = "Failure"

\* C27 witness: a batch of two files has finished; the first one's write
\* failed after its Success entry was set, the second one was written.
C27_Witness ==
    /\ bpc = "done"
    /\ Len(files_data) = 2
    /\ migration_summary[files_data[1].name] = Failure(<<"write">>)
    /\ files_data[1].name \notin converted_files
    /\ migration_summary[files_data[2].name].status = "Success"
    /\ converted_files = { files_data[2].name }

\* C28 as stated: two different files of one batch are never written to the
\* same output path.
C28_DistinctOutputPaths ==
    \A j \in DOMAIN written, k \in DOMAIN written :
        written[j].name # written[k].name => written[j].path # written[k].path

--------------------------------------------------------------------------
\* streamlit_app_v1.handle_conversion_process: the older click handler, whose
\* report is the file migration_logs/summary.txt.  It is entered with at
\* least one uploaded file (the caller warns otherwise).  The variables of
\* the handler of streamlit_app_v4 are used for the same things; summary_txt
\* holds the records of summary.txt in the order they were appended.

\* create_summary_file: one record appended per call.  A record is kept as
\* the file name and the leading word of its "Migration Status" line.
CreateSummaryFile(summary, name, status) ==
    Append(summary, [name |-> name, status |-> status])

\* What summary.txt holds before the click: nothing, or the record of an
\* earlier run.
StaleSummaries ==
    { <<>>, <<[name |-> <<"a", ".", "s", "q", "l">>, status |-> "Success"]>> }

InitV1 ==
    /\ ConvIdle
    /\ FnIdle
    /\ uploaded_files \in UNION { [1..n -> UploadedFile] : n \in 1..MaxFiles }
    /\ source_type \in SourceTypes
    /\ bpc = "idle"
    /\ idx = 0
    /\ files_data = <<>>
    /\ converted_files = {}
    /\ migration_summary = <<>>
    /\ written = <<>>
    /\ calls = <<>>
    /\ reported = {}
    /\ summary_txt \in StaleSummaries
    /\ NavIdle

V1Frame == UNCHANGED <<convVars, fnVars, navVars, migration_summary,
                       uploaded_files, source_type>>

\* summary.txt is unlinked, then file.read().decode("utf-8") raises in the
\* dict comprehension, outside every try.
V1DecodeRaises ==
    /\ bpc = "idle"
    /\ \E i \in DOMAIN uploaded_files : ~uploaded_files[i].decodable
    /\ summary_txt' = <<>>
    /\ bpc' = "crashed"
    /\ UNCHANGED <<idx, files_data, converted_files, written, calls, reported>>
    /\ V1Frame

\* summary.txt is unlinked, the session state is set up and the loop starts.
V1StartsLoop ==
    /\ bpc = "idle"
    /\ \A i \in DOMAIN uploaded_files : uploaded_files[i].decodable
    /\ summary_txt' = <<>>
    /\ files_data' = DictFrom(uploaded_files)
    /\ converted_files' = {}
    /\ idx' = 1
    /\ bpc' = "for"
    /\ UNCHANGED <<written, calls, reported>>
    /\ V1Frame

\* "SQL File": validate_sql rejects the file; error, Failure record, continue.
V1ValidateFails ==
    /\ AtFile
    /\ source_type = "SQL File"
    /\ ~ValidateSql(Current.stmts).ok
    /\ calls' = Append(calls, <<"validate_sql", Current.name>>)
    /\ summary_txt' = CreateSummaryFile(summary_txt, Current.name, "Failure")
    /\ reported' = reported \cup {Current.name}
    /\ idx' = idx + 1
    /\ UNCHANGED <<bpc, files_data, converted_files, written>>
    /\ V1Frame

\* "SQL File": validate_sql accepts the file; inside the spinner the text is
\* translated and wrapped and the Success record is appended, before the
\* output file is opened.
V1ConvertRegex ==
    /\ AtFile
    /\ source_type = "SQL File"
    /\ ValidateSql(Current.stmts).ok
    /\ calls' = calls \o << <<"validate_sql", Current.name>>,
                           <<"convert_oracle_to_snowflake", Current.name>>,
                           <<"wrap_sql_in_dbt_model", Current.name>> >>
    /\ summary_txt' = CreateSummaryFile(summary_txt, Current.name, "Success")
    /\ bpc' = "write"
    /\ UNCHANGED <<idx, files_data, converted_files, written, reported>>
    /\ V1Frame

\* Procedure, Function, Package, View: run_crew_migration returns a wrapped
\* model and a "Success" status, which is appended.
V1CrewSucceeds ==
    /\ AtFile
    /\ source_type \in CrewSourceTypes
    /\ calls' = Append(calls, <<"run_crew_migration", Current.name>>)
    /\ summary_txt' = CreateSummaryFile(summary_txt, Current.name, "Success")
    /\ bpc' = "write"
    /\ UNCHANGED <<idx, files_data, converted_files, written, reported>>
    /\ V1Frame

\* Procedure, Function, Package, View: run_crew_migration returns
\* (None, "Failure: ..."); the status is appended, error, continue.
V1CrewFails ==
    /\ AtFile
    /\ source_type \in CrewSourceTypes
    /\ calls' = Append(calls, <<"run_crew_migration", Current.name>>)
    /\ summary_txt' = CreateSummaryFile(summary_txt, Current.name, "Failure")
    /\ reported' = reported \cup {Current.name}
    /\ idx' = idx + 1
    /\ UNCHANGED <<bpc, files_data, converted_files, written>>
    /\ V1Frame

\* `if wrapped_sql:` the output file is written and the model kept.
V1WriteOutput ==
    /\ bpc = "write"
    /\ written' = Append(written, [path |-> OutputFilename(Current.name),
                                   name |-> Current.name])
    /\ converted_files' = converted_files \cup {Current.name}
    /\ idx' = idx + 1
    /\ bpc' = "for"
    /\ UNCHANGED <<files_data, calls, reported, summary_txt>>
    /\ V1Frame

\* open() or write() raises: the except branch reports the file and appends
\* a Failure record.
V1WriteRaises ==
    /\ bpc = "write"
    /\ reported' = reported \cup {Current.name}
    /\ summary_txt' = CreateSummaryFile(summary_txt, Current.name, "Failure")
    /\ idx' = idx + 1
    /\ bpc' = "for"
    /\ UNCHANGED <<files_data, converted_files, written, calls>>
    /\ V1Frame

\* The loop is exhausted: the "All files processed!" toast.
V1Finish ==
    /\ bpc = "for"
    /\ idx = Len(files_data) + 1
    /\ bpc' = "done"
    /\ UNCHANGED <<idx, files_data, converted_files, written, calls, reported,
                   summary_txt>>
    /\ V1Frame

NextV1 ==
    \/ V1DecodeRaises
    \/ V1StartsLoop
    \/ V1ValidateFails
    \/ V1ConvertRegex
    \/ V1CrewSucceeds
    \/ V1CrewFails
    \/ V1WriteOutput
    \/ V1WriteRaises
    \/ V1Finish

SpecV1 == InitV1 /\ [][NextV1]_vars

\* The records of summary.txt that name the file.
RecordsOf(name) == { k \in DOMAIN summary_txt : summary_txt[k].name = name }

\* C29: when the loop of streamlit_app_v1 has finished, every file of the
\* batch has exactly one record in summary.txt, and that record says Success
\* exactly when the file's output was written in this run; at no time does a
\* file have both a Success and a Failure record.
C29_OneRecordPerFile ==
    /\ bpc = "done" =>
          \A i \in DOMAIN files_data :
              LET n == files_data[i].name
              IN  /\ Cardinality(RecordsOf(n)) = 1
                  /\ \A k \in RecordsOf(n) :
                        summary_txt[k].status = "Success"
                            <=> \E w \in DOMAIN written : written[w].name = n
    /\ bpc # "idle" =>
          \A j \in DOMAIN summary_txt, k \in DOMAIN summary_txt :
              summary_txt[j].name = summary_txt[k].name
                  => summary_txt[j].status = summary_txt[k].status

--------------------------------------------------------------------------
\* app1_updated_v3: page navigation.  The script runs from top to bottom on
\* every user event and on every st.rerun(); one action is one script run.
\* st.rerun() ends the run it is called in and requests the next one, during
\* which no user event is taken.

Pages == <<"Home", "Environment Setup", "Migration Settings">>

\* pages.index(p) for the options of the radio.
PageIndexes == 0..(Len(Pages) - 1)

\* How Streamlit identifies the radio from one run to the next: by all its
\* parameters (a changed index makes a new widget, which returns the option
\* at index) or by its key alone (the widget keeps the option it holds).
\* Which of the two applies depends on the installed Streamlit.
RadioIdentities == { "parameters", "key" }

NoSelection == -1

\* st.sidebar.radio("", pages, index=page_index, key="sidebar_radio"), as an
\* index into pages.  selected is the option the user has just clicked, or
\* NoSelection.  The index parameter differs from that of the run before
\* exactly in a requested rerun, every st.rerun() of the script following a
\* change of page_index.
RadioValue(selected) ==
    IF selected # NoSelection THEN selected
    ELSE IF rerun_requested /\ radio_identity = "parameters" THEN page_index
    ELSE sidebar_radio

\* The page the script run renders when the sync does not end it.
CurrentPage == Pages[page_index + 1]

InitNav ==
    /\ ConvIdle
    /\ BatchIdle
    /\ summary_txt = <<>>
    /\ called = "none"
    /\ call_args \in [sql_text : WrapSqlTexts, model_type : App1ModelTypes,
                      unique_key : UniqueKeys]
    /\ returned = <<>>
    /\ page_index = 0
    /\ sidebar_radio = 0
    /\ rerun_requested = FALSE
    /\ radio_identity \in RadioIdentities
    /\ nav_event = "none"

NavFrame == UNCHANGED <<convVars, batchVars, summary_txt, radio_identity>>

\* The user picks another option of the sidebar radio; the sync sets
\* page_index and calls st.rerun().
SelectPage(p) ==
    /\ ~rerun_requested
    /\ p # sidebar_radio
    /\ nav_event' = "select"
    /\ sidebar_radio' = RadioValue(p)
    /\ IF RadioValue(p) # page_index
       THEN page_index' = RadioValue(p) /\ rerun_requested' = TRUE
       ELSE UNCHANGED <<page_index, rerun_requested>>
    /\ UNCHANGED fnVars
    /\ NavFrame

\* The user clicks Previous: the radio is evaluated and synced first, the
\* page is rendered, then `if st.button(...) and page_index > 0`.
ClickPrevious ==
    /\ ~rerun_requested
    /\ nav_event' = "previous"
    /\ sidebar_radio' = RadioValue(NoSelection)
    /\ IF RadioValue(NoSelection) # page_index
       THEN page_index' = RadioValue(NoSelection) /\ rerun_requested' = TRUE
       ELSE IF page_index > 0
       THEN page_index' = page_index - 1 /\ rerun_requested' = TRUE
       ELSE UNCHANGED <<page_index, rerun_requested>>
    /\ UNCHANGED fnVars
    /\ NavFrame

\* Mutant of ClickNext: the button steps forward on every page.
ClickNextUnbounded ==
    /\ ~rerun_requested
    /\ nav_event' = "next"
    /\ sidebar_radio' = RadioValue(NoSelection)
    /\ IF RadioValue(NoSelection) # page_index
       THEN page_index' = RadioValue(NoSelection) /\ rerun_requested' = TRUE
       ELSE page_index' = page_index + 1 /\ rerun_requested' = TRUE
    /\ UNCHANGED fnVars
    /\ NavFrame

\* The user clicks Next: `if st.button(...) and page_index < len(pages) - 1`.
ClickNext ==
    /\ ~rerun_requested
    /\ nav_event' = "next"
    /\ sidebar_radio' = RadioValue(NoSelection)
    /\ IF RadioValue(NoSelection) # page_index
       THEN page_index' = RadioValue(NoSelection) /\ rerun_requested' = TRUE
       ELSE IF page_index < Len(Pages) - 1
       THEN page_index' = page_index + 1 /\ rerun_requested' = TRUE
       ELSE UNCHANGED <<page_index, rerun_requested>>
    /\ UNCHANGED fnVars
    /\ NavFrame

\* The run st.rerun() asked for: no button is pressed in it; the sync may
\* ask for another one.
RerunScript ==
    /\ rerun_requested
    /\ nav_event' = "rerun"
    /\ sidebar_radio' = RadioValue(NoSelection)
    /\ IF RadioValue(NoSelection) # page_index
       THEN page_index' = RadioValue(NoSelection) /\ rerun_requested' = TRUE
       ELSE page_index' = page_index /\ rerun_requested' = FALSE
    /\ UNCHANGED fnVars
    /\ NavFrame

\* The user clicks "Convert and Save Models", which only the Migration
\* Settings page renders: the uploaded text is wrapped with the model type
\* and unique key of the page's inputs.
ClickConvert ==
    /\ ~rerun_requested
    /\ CurrentPage = "Migration Settings"
    /\ called = "none"
    /\ nav_event' = "convert"
    /\ sidebar_radio' = RadioValue(NoSelection)
    /\ IF RadioValue(NoSelection) # page_index
       THEN /\ page_index' = RadioValue(NoSelection)
            /\ rerun_requested' = TRUE
            /\ UNCHANGED <<called, returned>>
       ELSE /\ called' = "app1_updated_v3.page"
            /\ LET unique_key == IF call_args.model_type = INCREMENTAL
                                 THEN call_args.unique_key ELSE <<>>
               IN  returned' = WrapApp1UpdatedV3(call_args.sql_text,
                                                 call_args.model_type, unique_key)
            /\ UNCHANGED <<page_index, rerun_requested>>
    /\ UNCHANGED call_args
    /\ NavFrame

NextNav ==
    \/ \E p \in PageIndexes : SelectPage(p)
    \/ ClickPrevious
    \/ ClickNext
    \/ RerunScript
    \/ ClickConvert

SpecNav == InitNav /\ [][NextNav]_vars

==========================================================================
